---- MODULE Spec2Model ----
(***************************************************************************)
(* Contract comparison system: the pydantic records (src/src/models.py),   *)
(* the guardrails (src/src/guardrails.py), the two agents                  *)
(* (src/src/agents/*.py) and the two pipeline entry points                 *)
(* (src/src/main.py, src/src/main_enhanced.py).                            *)
(*                                                                         *)
(* A Python str is a sequence of one-character strings; a Python list is   *)
(* a sequence; a Python dict is a function on its set of keys.             *)
(***************************************************************************)
EXTENDS Integers, Sequences, FiniteSets, TLC

VARIABLES
    \* ---- record construction (SpecModels) ----
    data,        \* keyword arguments handed to ContractChangeOutput(**data)
    output,      \* what the constructor gave: a record or a ValidationError
    reloaded,    \* ContractChangeOutput(**output.model_dump())
    mpc,         \* "input" | "built" | "reloaded"
    \* ---- one call of a method on arguments built by hand (SpecGuardrails, ...) ----
    call,        \* the method called and its arguments
    returned,    \* <<>> before the call, <<value>> once it returned
    \* ---- one run of a pipeline entry point (Spec) ----
    variant,             \* "basic": main.py, "enhanced": main_enhanced.py
    enable_guardrails,   \* argument of the enhanced entry point
    enable_evaluation,   \* argument of the enhanced entry point
    enable_llm_eval,     \* argument of the enhanced entry point
    original_file,       \* the file at original_image_path
    amendment_file,      \* the file at amendment_image_path
    pc,                  \* the statement the entry point is at
    original_contract,   \* ParsedContract of STEP 1
    amendment_contract,  \* ParsedContract of STEP 2
    context,             \* AgentContext of STEP 3
    changes,             \* ContractChangeOutput of STEP 4
    metadata,            \* the metadata dict of the enhanced entry point
    calls,               \* requests issued to each collaborator
    log,                 \* the steps entered so far, in order
    outcome              \* what the caller got: nothing yet, a return, an exception

mvars == <<data, output, reloaded, mpc>>
uvars == <<call, returned>>
pvars == <<variant, enable_guardrails, enable_evaluation, enable_llm_eval, original_file,
           amendment_file, pc, original_contract, amendment_contract, context,
           changes, metadata, calls, log, outcome>>
vars == <<mvars, uvars, pvars>>

(***************************************************************************)
(* Strings                                                                 *)
(***************************************************************************)
Whitespace == {" ", "\t", "\n"}

Rep(c, n) == SubSeq([i \in 1..n |-> c], 1, n)

RECURSIVE lstrip(_)
lstrip(s) ==
    IF s = <<>> THEN s
    ELSE IF Head(s) \in Whitespace THEN lstrip(Tail(s)) ELSE s

RECURSIVE rstrip(_)
rstrip(s) ==
    IF s = <<>> THEN s
    ELSE IF s[Len(s)] \in Whitespace THEN rstrip(SubSeq(s, 1, Len(s) - 1)) ELSE s

\* str.strip()
strip(s) == rstrip(lstrip(s))

\* the sequence w repeated n times
RepeatSeq(w, n) ==
    SubSeq([i \in 1..(n * Len(w)) |-> w[((i - 1) % Len(w)) + 1]], 1, n * Len(w))

Digits == {"0", "1", "2", "3", "4", "5", "6", "7", "8", "9"}
LowerLetters ==
    <<"a", "b", "c", "d", "e", "f", "g", "h", "i", "j", "k", "l", "m",
      "n", "o", "p", "q", "r", "s", "t", "u", "v", "w", "x", "y", "z">>
UpperLetters ==
    <<"A", "B", "C", "D", "E", "F", "G", "H", "I", "J", "K", "L", "M",
      "N", "O", "P", "Q", "R", "S", "T", "U", "V", "W", "X", "Y", "Z">>
Range(f) == {f[i] : i \in DOMAIN f}
Lower == Range(LowerLetters)
Upper == Range(UpperLetters)
Letters == Lower \cup Upper
\* \w of the re module
WordChars == Letters \cup Digits \cup {"_"}

lower_char(c) ==
    IF c \in Upper
    THEN LowerLetters[CHOOSE i \in 1..26 : UpperLetters[i] = c]
    ELSE c

\* str.lower()
lower(s) == SubSeq([i \in 1..Len(s) |-> lower_char(s[i])], 1, Len(s))

\* "needle in haystack"
Contains(haystack, needle) ==
    \E i \in 0..(Len(haystack) - Len(needle)) :
        \A k \in 1..Len(needle) : haystack[i + k] = needle[k]

\* str.startswith(prefix)
startswith(s, prefix) ==
    /\ Len(prefix) <= Len(s)
    /\ \A k \in 1..Len(prefix) : s[k] = prefix[k]

\* the indices where a word of s.split() begins
WordStarts(s) ==
    {i \in 1..Len(s) : s[i] \notin Whitespace /\ (i = 1 \/ s[i - 1] \in Whitespace)}

\* len(s.split())
word_count(s) == Cardinality(WordStarts(s))

\* sum(len(w) for w in s.split())
word_chars(s) == Cardinality({i \in 1..Len(s) : s[i] \notin Whitespace})

\* sum(c.isalpha() for c in s)
alpha_chars(s) == Cardinality({i \in 1..Len(s) : s[i] \in Letters})

\* s.split('\n'): the lines of s, in order
RECURSIVE LinesFrom(_, _)
LinesFrom(s, from) ==
    LET breaks == {i \in from..Len(s) : s[i] = "\n"}
    IN IF breaks = {}
       THEN <<SubSeq(s, from, Len(s))>>
       ELSE LET b == CHOOSE i \in breaks : \A j \in breaks : i <= j
            IN <<SubSeq(s, from, b - 1)>> \o LinesFrom(s, b + 1)

split_lines(s) == LinesFrom(s, 1)

(***************************************************************************)
(* Regular expressions (re): a pattern is a tagged tuple                   *)
(*   <<"cls", S>>  one character of S        <<"wb">>        \b            *)
(*   <<"seq", <<p1, ..., pn>>>>              <<"opt", p>>    p? (greedy)   *)
(*   <<"plus", p>> p+ (greedy)                                             *)
(* Ends(p, s, i) lists the offsets where a match of p that starts at       *)
(* offset i may end, in the order the backtracking matcher tries them.     *)
(***************************************************************************)
WordBoundary(s, i) ==
    LET before == i >= 1 /\ s[i] \in WordChars
        after == i < Len(s) /\ s[i + 1] \in WordChars
    IN before # after

RECURSIVE Ends(_, _, _), EndsOfEach(_, _, _), EndsOfSeq(_, _, _, _), EndsOfPlus(_, _, _)
Ends(p, s, i) ==
    CASE p[1] = "cls" -> IF i < Len(s) /\ s[i + 1] \in p[2] THEN <<i + 1>> ELSE <<>>
      [] p[1] = "wb" -> IF WordBoundary(s, i) THEN <<i>> ELSE <<>>
      [] p[1] = "opt" -> Ends(p[2], s, i) \o <<i>>
      [] p[1] = "seq" -> EndsOfSeq(p[2], 1, s, <<i>>)
      [] p[1] = "plus" -> EndsOfPlus(p[2], s, Ends(p[2], s, i))

EndsOfEach(p, s, starts) ==
    IF starts = <<>> THEN <<>>
    ELSE Ends(p, s, Head(starts)) \o EndsOfEach(p, s, Tail(starts))

EndsOfSeq(ps, k, s, starts) ==
    IF k > Len(ps) \/ starts = <<>> THEN starts
    ELSE EndsOfSeq(ps, k + 1, s, EndsOfEach(ps[k], s, starts))

\* after one repetition ended at Head(ends): more repetitions first, then stop
EndsOfPlus(p, s, ends) ==
    IF ends = <<>> THEN <<>>
    ELSE EndsOfPlus(p, s, Ends(p, s, Head(ends))) \o <<Head(ends)>>
         \o EndsOfPlus(p, s, Tail(ends))

Cls(S) == <<"cls", S>>
Opt(p) == <<"opt", p>>
Plus(p) == <<"plus", p>>
Cat(ps) == <<"seq", ps>>
Times(p, n) == Cat([i \in 1..n |-> p])
WB == <<"wb">>

\* len(pattern.findall(s)): non-overlapping matches, leftmost first
RECURSIVE CountMatches(_, _, _)
CountMatches(p, s, from) ==
    LET starts == {i \in from..Len(s) : Ends(p, s, i) # <<>>}
    IN IF starts = {} THEN 0
       ELSE LET i == CHOOSE x \in starts : \A y \in starts : x <= y
                e == Head(Ends(p, s, i))
            IN 1 + CountMatches(p, s, IF e > i THEN e ELSE i + 1)

findall_count(p, s) == CountMatches(p, s, 0)

\* pattern.search(s) is not None
search(p, s) == \E i \in 0..Len(s) : Ends(p, s, i) # <<>>

(***************************************************************************)
(* ContractChangeOutput (models.py)                                        *)
(***************************************************************************)
MinSections == 1
MinTopics == 1
MinSummaryLength == 100

\* the loop "for x in v: if x not in seen: seen.add(x); unique.append(x)"
RECURSIVE UniqueLoop(_, _, _)
UniqueLoop(v, seen, unique) ==
    IF v = <<>> THEN unique
    ELSE IF Head(v) \notin seen
         THEN UniqueLoop(Tail(v), seen \cup {Head(v)}, Append(unique, Head(v)))
         ELSE UniqueLoop(Tail(v), seen, unique)

Valid(x) == [ok |-> TRUE, val |-> x]
Invalid == [ok |-> FALSE, val |-> <<>>]

RemoveAllRepeats(v) == UniqueLoop(v, {}, <<>>)

\* the elements of v at the indices in keep, in v's order
RECURSIVE Select(_, _, _)
Select(v, keep, i) ==
    IF i > Len(v) THEN <<>>
    ELSE IF i \in keep THEN <<v[i]>> \o Select(v, keep, i + 1)
         ELSE Select(v, keep, i + 1)

KeepLastOccurrence(v) ==
    Select(v, {i \in 1..Len(v) : \A j \in (i + 1)..Len(v) : v[j] # v[i]}, 1)

validate_sections_keep_last(v) ==
    IF \E i \in 1..Len(v) : Len(strip(v[i])) = 0
    THEN Invalid
    ELSE Valid(KeepLastOccurrence(v))

validate_sections(v) ==
    IF \E i \in 1..Len(v) : Len(strip(v[i])) = 0
    THEN Invalid
    ELSE Valid(RemoveAllRepeats(v))

validate_topics(v) ==
    IF \E i \in 1..Len(v) : Len(strip(v[i])) = 0
    THEN Invalid
    ELSE Valid(RemoveAllRepeats(v))

validate_summary_raw_length(v) ==
    IF Len(v) < MinSummaryLength THEN Invalid ELSE Valid(strip(v))

validate_summary_unstripped(v) ==
    IF Len(strip(v)) < MinSummaryLength THEN Invalid ELSE Valid(v)

validate_summary(v) ==
    IF Len(strip(v)) < MinSummaryLength THEN Invalid ELSE Valid(strip(v))

\* Field(..., min_length=n) runs before the field_validator (mode "after")
field_sections_changed(v) ==
    IF Len(v) < MinSections THEN Invalid ELSE validate_sections(v)

field_topics_touched(v) ==
    IF Len(v) < MinTopics THEN Invalid ELSE validate_topics(v)

field_summary_of_the_change(v) ==
    IF Len(v) < MinSummaryLength THEN Invalid ELSE validate_summary(v)

NoOutput ==
    [ok |-> FALSE, failed |-> {}, sections_changed |-> <<>>,
     topics_touched |-> <<>>, summary_of_the_change |-> <<>>]

\* ContractChangeOutput(sections_changed=..., topics_touched=..., summary_of_the_change=...)
\* pydantic validates every field and raises one ValidationError naming the failed ones
ContractChangeOutput(d) ==
    LET s == field_sections_changed(d.sections_changed)
        t == field_topics_touched(d.topics_touched)
        m == field_summary_of_the_change(d.summary_of_the_change)
        failed == {f \in {"sections_changed", "topics_touched", "summary_of_the_change"} :
                     \/ f = "sections_changed" /\ ~s.ok
                     \/ f = "topics_touched" /\ ~t.ok
                     \/ f = "summary_of_the_change" /\ ~m.ok}
    IN IF failed = {}
       THEN [ok |-> TRUE, failed |-> {}, sections_changed |-> s.val,
             topics_touched |-> t.val, summary_of_the_change |-> m.val]
       ELSE [NoOutput EXCEPT !.failed = failed]

\* BaseModel.model_dump(): the stored field values, as a dict
model_dump(o) ==
    [sections_changed |-> o.sections_changed,
     topics_touched |-> o.topics_touched,
     summary_of_the_change |-> o.summary_of_the_change]

(***************************************************************************)
(* ParsedContract and AgentContext (models.py)                             *)
(***************************************************************************)
MinRawTextLength == 50
MinDocumentStructureLength == 100
MinChangeAreas == 1
MinContextSummaryLength == 50

Original == <<"o", "r", "i", "g", "i", "n", "a", "l">>
Amendment == <<"a", "m", "e", "n", "d", "m", "e", "n", "t">>

NoContract ==
    [ok |-> FALSE, raw_text |-> <<>>, document_type |-> <<>>,
     sections_identified |-> <<>>]

\* ParsedContract(raw_text=..., document_type=..., sections_identified=...)
ParsedContract(raw_text, document_type, sections_identified) ==
    IF /\ Len(raw_text) >= MinRawTextLength
       /\ lower(document_type) \in {Original, Amendment}
    THEN [ok |-> TRUE, raw_text |-> raw_text,
          document_type |-> lower(document_type),
          sections_identified |-> sections_identified]
    ELSE NoContract

NoContext ==
    [ok |-> FALSE, document_structure |-> <<>>, corresponding_sections |-> <<>>,
     identified_change_areas |-> <<>>, context_summary |-> <<>>]

AgentContext_any_areas(d) ==
    IF /\ Len(d.document_structure) >= MinDocumentStructureLength
       /\ DOMAIN d.corresponding_sections # {}
       /\ Len(d.context_summary) >= MinContextSummaryLength
    THEN [ok |-> TRUE, document_structure |-> d.document_structure,
          corresponding_sections |-> d.corresponding_sections,
          identified_change_areas |-> d.identified_change_areas,
          context_summary |-> d.context_summary]
    ELSE NoContext

\* AgentContext(**d), for a dict d that has the four keys
AgentContext(d) ==
    IF /\ Len(d.document_structure) >= MinDocumentStructureLength
       /\ DOMAIN d.corresponding_sections # {}
       /\ Len(d.identified_change_areas) >= MinChangeAreas
       /\ Len(d.context_summary) >= MinContextSummaryLength
    THEN [ok |-> TRUE, document_structure |-> d.document_structure,
          corresponding_sections |-> d.corresponding_sections,
          identified_change_areas |-> d.identified_change_areas,
          context_summary |-> d.context_summary]
    ELSE NoContext

(***************************************************************************)
(* ContractGuardrails and SafetyGuardrails (guardrails.py)                 *)
(***************************************************************************)
min_text_length == 50
max_text_length == 50000
max_file_size_bytes == 10485760
MinWordCount == 20
MinAvgWordLength == 2
MaxAvgWordLength == 20
MinOutputSummaryLength == 100

allowed_extensions == {".jpg", ".jpeg", ".png", ".pdf"}
ImageExtensions == {".jpg", ".jpeg", ".png"}

D == Cls(Digits)
Dash == Cls({"-"})
Sep == Opt(Cls(Whitespace \cup {"-"}))
DotSep == Opt(Cls(Whitespace \cup {".", "-"}))
Local == Cls(Letters \cup Digits \cup {".", "_", "%", "+", "-"})
Domain == Cls(Letters \cup Digits \cup {".", "-"})
Tld == Cls(Letters \cup {"|"})

\* self.sensitive_patterns, in the dict's order
sensitive_patterns ==
    << [name |-> "ssn",
        pattern |-> Cat(<<WB, Times(D, 3), Dash, Times(D, 2), Dash, Times(D, 4), WB>>)],
       [name |-> "credit_card",
        pattern |-> Cat(<<WB, Times(D, 4), Sep, Times(D, 4), Sep, Times(D, 4), Sep,
                          Times(D, 4), WB>>)],
       [name |-> "email",
        pattern |-> Cat(<<WB, Plus(Local), Cls({"@"}), Plus(Domain), Cls({"."}),
                          Tld, Plus(Tld), WB>>)],
       [name |-> "phone",
        pattern |-> Cat(<<WB,
                          Opt(Cat(<<Cls({"+"}), D, Opt(D), Opt(Cls(Whitespace))>>)),
                          Opt(Cls({"("})), Times(D, 3), Opt(Cls({")"})), DotSep,
                          Times(D, 3), DotSep, Times(D, 4), WB>>)] >>

upper_char(c) ==
    IF c \in Lower
    THEN UpperLetters[CHOOSE i \in 1..26 : LowerLetters[i] = c]
    ELSE c

\* a literal under re.IGNORECASE
IgnoreCase(lit) == Cat([i \in 1..Len(lit) |-> Cls({lower_char(lit[i]), upper_char(lit[i])})])

\* self.malicious_patterns
malicious_patterns ==
    << [name |-> "<script",
        pattern |-> IgnoreCase(<<"<", "s", "c", "r", "i", "p", "t">>)],
       [name |-> "javascript:",
        pattern |-> IgnoreCase(<<"j", "a", "v", "a", "s", "c", "r", "i", "p", "t", ":">>)],
       [name |-> "eval\\s*\\(",
        pattern |-> Cat(<<IgnoreCase(<<"e", "v", "a", "l">>),
                          Opt(Plus(Cls(Whitespace))), Cls({"("})>>)] >>

Msg(text) == [msg |-> text]

NewResults ==
    [is_valid |-> TRUE, checks_passed |-> 0, total_checks |-> 0,
     warnings |-> <<>>, errors |-> <<>>, details |-> <<>>]

AddError(r, text) == [r EXCEPT !.errors = Append(@, Msg(text))]
AddWarning(r, text) == [r EXCEPT !.warnings = Append(@, Msg(text))]
\* f"{text} ({chars} chars, minimum/maximum {limit})"
AddLengthError(r, text, chars, limit) ==
    [r EXCEPT !.errors = Append(@, [msg |-> text, chars |-> chars, limit |-> limit])]
Passed(r) == [r EXCEPT !.checks_passed = @ + 1]
Counted(r) == [r EXCEPT !.total_checks = @ + 1]
Detail(r, key, value) == [r EXCEPT !.details = (key :> value) @@ @]

_check_text_length_inclusive(contract, results) ==
    LET text_length == Len(contract.raw_text)
        r == Detail(Counted(results), "text_length", text_length)
    IN IF text_length <= min_text_length
       THEN AddLengthError(r, "Text too short", text_length, min_text_length)
       ELSE IF text_length >= max_text_length
            THEN AddLengthError(r, "Text too long", text_length, max_text_length)
       ELSE Passed(r)

_check_text_length(contract, results) ==
    LET text_length == Len(contract.raw_text)
        r == Detail(Counted(results), "text_length", text_length)
    IN IF text_length < min_text_length
       THEN AddLengthError(r, "Text too short", text_length, min_text_length)
       ELSE IF text_length > max_text_length
            THEN AddLengthError(r, "Text too long", text_length, max_text_length)
       ELSE Passed(r)

_check_text_quality(contract, results) ==
    LET text == contract.raw_text
        words == word_count(text)
        chars == word_chars(text)
        alpha == alpha_chars(text)
        r0 == Detail(Counted(results), "word_count", words)
        \* avg_word_length = chars / words, alpha_ratio = alpha / len(text)
        r1 == Detail(r0, "avg_word_length", <<chars, words>>)
        r2 == IF chars < MinAvgWordLength * words \/ chars > MaxAvgWordLength * words
              THEN AddWarning(r1, "Unusual average word length") ELSE r1
        r3 == Detail(r2, "alpha_ratio", <<alpha, Len(text)>>)
        r4 == IF 2 * alpha < Len(text)
              THEN AddWarning(r3, "Low alphabetic character ratio") ELSE r3
    IN IF words < MinWordCount THEN AddError(r0, "Too few words") ELSE Passed(r4)

_check_sections(contract, results) ==
    LET sections == contract.sections_identified
        r0 == Detail(Counted(results), "sections_count", Len(sections))
        r1 == IF Len(sections) = 0 THEN AddWarning(r0, "No sections identified") ELSE r0
        r2 == IF Len(sections) # Cardinality(Range(sections))
              THEN AddWarning(r1, "Duplicate sections detected") ELSE r1
    IN Passed(r2)

_check_pydantic_model(contract, results) ==
    LET again == ParsedContract(contract.raw_text, contract.document_type,
                                contract.sections_identified)
    IN IF again.ok THEN Passed(Counted(results))
       ELSE AddError(Counted(results), "Pydantic validation failed")

\* a file of the file system: [exists, extension, size, opens]
_check_file_integrity(file, results) ==
    LET r0 == Counted(results)
        r1 == Detail(r0, "file_extension", file.extension)
    IN IF ~file.exists THEN AddError(r0, "File not found")
       ELSE IF file.extension \notin allowed_extensions
            THEN AddError(r1, "Invalid file extension")
       ELSE IF file.extension \in ImageExtensions /\ ~file.opens
            THEN AddError(r1, "Cannot open image")
       ELSE Passed(r1)

_check_file_size(file, results) ==
    LET r0 == Counted(results)
    IN IF ~file.exists THEN AddWarning(r0, "Could not check file size")
       ELSE IF file.size > max_file_size_bytes
            THEN AddError(Detail(r0, "file_size_mb", file.size), "File too large")
       ELSE Passed(Detail(r0, "file_size_mb", file.size))

\* sensitive_found: the matched categories with their match counts
SensitiveFound(text) ==
    LET hit == {i \in 1..Len(sensitive_patterns) :
                  findall_count(sensitive_patterns[i].pattern, text) > 0}
    IN [n \in {sensitive_patterns[i].name : i \in hit} |->
          LET i == CHOOSE k \in hit : sensitive_patterns[k].name = n
          IN findall_count(sensitive_patterns[i].pattern, text)]

_check_sensitive_data_blocking(contract, results) ==
    LET sensitive_found == SensitiveFound(contract.raw_text)
    IN IF DOMAIN sensitive_found # {}
       THEN AddError(Detail(results, "sensitive_data_detected", sensitive_found),
                     "Sensitive data detected")
       ELSE results

_check_sensitive_data_counted(contract, results) ==
    LET sensitive_found == SensitiveFound(contract.raw_text)
    IN IF DOMAIN sensitive_found # {}
       THEN AddWarning(Detail(Counted(results), "sensitive_data_detected", sensitive_found),
                       "Sensitive data detected")
       ELSE Passed(Counted(results))

_check_sensitive_data(contract, results) ==
    LET sensitive_found == SensitiveFound(contract.raw_text)
    IN IF DOMAIN sensitive_found # {}
       THEN AddWarning(Detail(results, "sensitive_data_detected", sensitive_found),
                       "Sensitive data detected")
       ELSE results

NoFile == [given |-> FALSE, exists |-> FALSE, extension |-> "", size |-> 0, opens |-> FALSE]

validate_input_warnings_block(contract, file) ==
    LET r1 == _check_text_length(contract, NewResults)
        r2 == _check_text_quality(contract, r1)
        r3 == _check_sections(contract, r2)
        r4 == _check_pydantic_model(contract, r3)
        r5 == IF file.given
              THEN _check_file_size(file, _check_file_integrity(file, r4))
              ELSE r4
        r6 == _check_sensitive_data(contract, r5)
    IN [r6 EXCEPT !.is_valid = (Len(r6.errors) = 0 /\ Len(r6.warnings) = 0)]

validate_input(contract, file) ==
    LET r1 == _check_text_length(contract, NewResults)
        r2 == _check_text_quality(contract, r1)
        r3 == _check_sections(contract, r2)
        r4 == _check_pydantic_model(contract, r3)
        r5 == IF file.given
              THEN _check_file_size(file, _check_file_integrity(file, r4))
              ELSE r4
        r6 == _check_sensitive_data(contract, r5)
    IN [r6 EXCEPT !.is_valid = (Len(r6.errors) = 0)]

validate_output_case_sensitive(out, original, amendment) ==
    LET r1 == IF Len(out.sections_changed) = 0
              THEN AddWarning(Counted(NewResults), "No sections changed identified")
              ELSE Passed(Counted(NewResults))
        r2 == IF Len(out.topics_touched) = 0
              THEN AddWarning(Counted(r1), "No topics identified")
              ELSE Passed(Counted(r1))
        r3 == IF Len(out.summary_of_the_change) < MinOutputSummaryLength
              THEN AddError(Counted(r2), "Summary too short")
              ELSE Passed(Counted(r2))
        combined_text == original.raw_text \o amendment.raw_text
        topics_found ==
            Cardinality({i \in 1..Len(out.topics_touched) :
                           Contains(combined_text, out.topics_touched[i])})
        r4 == IF topics_found = 0 /\ Len(out.topics_touched) > 0
              THEN AddWarning(Counted(r3), "Topics do not appear in source documents")
              ELSE Passed(Counted(r3))
    IN [r4 EXCEPT !.is_valid = (Len(r4.errors) = 0)]

validate_output(out, original, amendment) ==
    LET r1 == IF Len(out.sections_changed) = 0
              THEN AddWarning(Counted(NewResults), "No sections changed identified")
              ELSE Passed(Counted(NewResults))
        r2 == IF Len(out.topics_touched) = 0
              THEN AddWarning(Counted(r1), "No topics identified")
              ELSE Passed(Counted(r1))
        r3 == IF Len(out.summary_of_the_change) < MinOutputSummaryLength
              THEN AddError(Counted(r2), "Summary too short")
              ELSE Passed(Counted(r2))
        combined_text == original.raw_text \o amendment.raw_text
        topics_found ==
            Cardinality({i \in 1..Len(out.topics_touched) :
                           Contains(lower(combined_text), lower(out.topics_touched[i]))})
        r4 == IF topics_found = 0 /\ Len(out.topics_touched) > 0
              THEN AddWarning(Counted(r3), "Topics do not appear in source documents")
              ELSE Passed(Counted(r3))
    IN [r4 EXCEPT !.is_valid = (Len(r4.errors) = 0)]

check_content_safety(text) ==
    LET threats == Select(malicious_patterns,
                          {i \in 1..Len(malicious_patterns) :
                             search(malicious_patterns[i].pattern, text)}, 1)
    IN [is_safe |-> threats = <<>>,
        threats_detected |-> [i \in 1..Len(threats) |-> threats[i].name],
        warnings |-> <<>>]

(***************************************************************************)
(* parse_contract_image (image_parser.py)                                  *)
(***************************************************************************)
MAX_IMAGE_SIZE_BYTES == 10485760
SUPPORTED_FORMATS == {".jpg", ".jpeg", ".png", ".webp", ".gif", ".pdf"}

\* validate_image(image_path)[0]
validate_image(file) ==
    /\ file.exists
    /\ file.extension \in SUPPORTED_FORMATS
    /\ file.size <= MAX_IMAGE_SIZE_BYTES
    /\ file.size # 0
    /\ file.extension = ".pdf" \/ file.opens

SectionPrefixes ==
    { <<"S", "e", "c", "t", "i", "o", "n">>, <<"S", "E", "C", "T", "I", "O", "N">>,
      <<"A", "r", "t", "i", "c", "l", "e">>, <<"A", "R", "T", "I", "C", "L", "E">>,
      <<"C", "l", "a", "u", "s", "e">>, <<"C", "L", "A", "U", "S", "E">>,
      <<"E", "x", "h", "i", "b", "i", "t">>, <<"E", "X", "H", "I", "B", "I", "T">> }

\* the stripped lines of the text that start with a section prefix
sections_of(extracted_text) ==
    LET lines == split_lines(extracted_text)
        stripped == [i \in 1..Len(lines) |-> strip(lines[i])]
    IN Select(stripped,
              {i \in 1..Len(stripped) :
                 \E prefix \in SectionPrefixes : startswith(stripped[i], prefix)}, 1)

\* parse_contract_image(image_path, document_type, client), given what the
\* vision collaborator answers: [kind |-> "raise"] or [kind |-> "text", text |-> ...]
parse_contract_image(file, document_type, reply) ==
    IF ~validate_image(file) THEN NoContract
    ELSE IF reply.kind = "raise" THEN NoContract
    ELSE ParsedContract(reply.text, document_type, sections_of(reply.text))

(***************************************************************************)
(* ContextualizationAgent.analyze, ExtractionAgent.extract_changes         *)
(***************************************************************************)
ContextKeys ==
    {"document_structure", "corresponding_sections", "identified_change_areas",
     "context_summary"}
ChangeKeys == {"sections_changed", "topics_touched", "summary_of_the_change"}

\* the message prefixes of the except clauses
JsonTag == "Failed to parse LLM response as JSON"
MissingFieldTag == "LLM response missing required field"
Agent1Tag == "Agent 1 analysis failed"
Agent2Tag == "Agent 2 extraction failed"

Raised(tag, cause) == [ok |-> FALSE, tag |-> tag, cause |-> cause]
Returned == [ok |-> TRUE, tag |-> "", cause |-> ""]

\* which of the failure causes a reply is: the JSON object lacks a key of the
\* schema ("missing_key"), or the reply's kind
ReplyCause(reply, keys) ==
    IF reply.kind = "json" /\ ~(keys \subseteq reply.keys) THEN "missing_key"
    ELSE reply.kind

analyze_calls_retry(reply) == IF reply.kind = "json" THEN 1 ELSE 2

\* how often analyze calls client.chat.completions.create: one call site, no loop
analyze_calls(reply) == 1

\* how often extract_changes calls client.chat.completions.create
extract_changes_calls(reply) == 1

analyze_error_swallowed(reply) == Returned

\* the except clause that a failure of analyze ends in.  A reply is what
\* client.chat.completions.create does: [kind |-> "raise"], or a message whose
\* content is empty ("empty"), is no JSON ("text"), or is the JSON object with
\* the keys reply.keys and the values reply.fields ("json")
analyze_error(reply) ==
    CASE reply.kind = "raise" -> Raised(Agent1Tag, "collaborator error")
      [] reply.kind = "empty" -> Raised(Agent1Tag, "Empty response from Agent 1")
      [] reply.kind = "text" -> Raised(JsonTag, "JSONDecodeError")
      [] reply.kind = "json" ->
           IF ContextKeys \subseteq reply.keys /\ AgentContext(reply.fields).ok
           THEN Returned
           ELSE Raised(Agent1Tag, "ValidationError")

\* the AgentContext analyze returns
analyze(reply) ==
    IF analyze_error(reply).ok THEN AgentContext(reply.fields) ELSE NoContext

extract_changes_error(reply) ==
    CASE reply.kind = "raise" -> Raised(Agent2Tag, "collaborator error")
      [] reply.kind = "empty" -> Raised(Agent2Tag, "Empty response from Agent 2")
      [] reply.kind = "text" -> Raised(JsonTag, "JSONDecodeError")
      [] reply.kind = "json" ->
           IF ~(ChangeKeys \subseteq reply.keys) THEN Raised(MissingFieldTag, "KeyError")
           ELSE IF ContractChangeOutput(reply.fields).ok THEN Returned
           ELSE Raised(Agent2Tag, "ValidationError")

\* the ContractChangeOutput extract_changes returns
extract_changes(reply) ==
    IF extract_changes_error(reply).ok THEN ContractChangeOutput(reply.fields)
    ELSE NoOutput

(***************************************************************************)
(* ExtractionAgent.validate_against_context                                *)
(***************************************************************************)
IdSeparator == <<" ", "-", " ">>
NewSection == <<"[", "N", "E", "W", "]">>
CoverageNum == 4
CoverageDen == 5

\* the offsets where sep occurs in s
Occurs(s, sep) ==
    {i \in 0..(Len(s) - Len(sep)) : \A k \in 1..Len(sep) : s[i + k] = sep[k]}

section_id_before_last(area) ==
    LET at == Occurs(area, IdSeparator)
    IN IF at = {} THEN area
       ELSE SubSeq(area, 1, CHOOSE i \in at : \A j \in at : j <= i)

\* area.split(' - ')[0] if ' - ' in area else area
section_id(area) ==
    LET at == Occurs(area, IdSeparator)
    IN IF at = {} THEN area
       ELSE SubSeq(area, 1, CHOOSE i \in at : \A j \in at : i <= j)

\* round(num / den): the nearest integer, a tie going to the even one
RoundHalfEven(num, den) ==
    LET q == num \div den
        twice == 2 * (num % den)
    IN IF twice < den THEN q
       ELSE IF twice > den THEN q + 1
       ELSE IF q % 2 = 0 THEN q ELSE q + 1

validate_against_context_strict(chg, ctx) ==
    LET agent1_sections == {section_id(a) : a \in Range(ctx.identified_change_areas)}
        agent2_sections == {section_id(x) : x \in Range(chg.sections_changed)}
        covered_sections == agent1_sections \cap agent2_sections
        covered == Cardinality(covered_sections)
        total == Cardinality(agent1_sections)
    IN [all_areas_covered |-> total > 0 /\ CoverageDen * covered >= CoverageNum * total,
        no_extra_sections |-> agent2_sections \subseteq agent1_sections,
        alignment_score |-> IF total = 0 THEN 0 ELSE RoundHalfEven(10000 * covered, total),
        covered_sections |-> covered_sections,
        missed_sections |-> agent1_sections \ agent2_sections,
        extra_sections |-> agent2_sections \ agent1_sections]

\* alignment_score is in hundredths: round(coverage_ratio * 100, 2) * 100;
\* the three lists are built from sets and are sets here
validate_against_context(chg, ctx) ==
    LET agent1_sections == {section_id(a) : a \in Range(ctx.identified_change_areas)}
        agent2_sections == {section_id(x) : x \in Range(chg.sections_changed)}
        covered_sections == agent1_sections \cap agent2_sections
        covered == Cardinality(covered_sections)
        total == Cardinality(agent1_sections)
    IN [all_areas_covered |-> total > 0 /\ CoverageDen * covered >= CoverageNum * total,
        no_extra_sections |-> agent2_sections \subseteq (agent1_sections \cup {NewSection}),
        alignment_score |-> IF total = 0 THEN 0 ELSE RoundHalfEven(10000 * covered, total),
        covered_sections |-> covered_sections,
        missed_sections |-> agent1_sections \ agent2_sections,
        extra_sections |-> agent2_sections \ agent1_sections]

(***************************************************************************)
(* ContractEvaluator (evaluator.py).  A float is the rational <<num, den>> *)
(* in lowest terms, den > 0                                                *)
(***************************************************************************)
RECURSIVE GCD(_, _)
GCD(a, b) == IF b = 0 THEN a ELSE GCD(b, a % b)
Q(num, den) ==
    LET g == GCD(IF num < 0 THEN -num ELSE num, den)
    IN <<num \div g, den \div g>>
QMul(x, y) == Q(x[1] * y[1], x[2] * y[2])
QAdd(x, y) == Q(x[1] * y[2] + y[1] * x[2], x[2] * y[2])
QLess(x, y) == x[1] * y[2] < y[1] * x[2]
QMax(x, y) == IF QLess(x, y) THEN y ELSE x
QMin(x, y) == IF QLess(y, x) THEN y ELSE x
\* "count / len(items) if items else 0"
Ratio(count, of) == IF of = 0 THEN Q(0, 1) ELSE Q(count, of)

LongSummaryLength == 200
ShortSummaryLength == 100
RecommendationThreshold == 70
MinLongWord == 3
MinSentenceWords == 10
MaxSentenceWords == 50

\* s.split(): the words of s, in order
RECURSIVE WordsFrom(_, _)
WordsFrom(s, from) ==
    LET starts == {i \in WordStarts(s) : i >= from}
    IN IF starts = {} THEN <<>>
       ELSE LET b == CHOOSE i \in starts : \A j \in starts : i <= j
                gaps == {i \in b..Len(s) : s[i] \in Whitespace}
                e == IF gaps = {} THEN Len(s) + 1
                     ELSE CHOOSE i \in gaps : \A j \in gaps : i <= j
            IN <<SubSeq(s, b, e - 1)>> \o WordsFrom(s, e)
split(s) == WordsFrom(s, 1)

\* any(word in target for word in item.split() if len(word) > 3), the words lowered
Mentions(target, item) ==
    \E w \in Range(split(item)) : Len(w) > MinLongWord /\ Contains(target, lower(w))

Clamp_percent(score) == QMul(score, Q(100, 1))

\* max(0.0, min(100.0, score))
Clamp(score) == QMax(Q(0, 1), QMin(Q(100, 1), score))

NewEvaluation ==
    [dimension_scores |-> <<>>, overall_score |-> Q(0, 1), grade |-> "",
     recommendations |-> <<>>, details |-> <<>>]

\* results['dimension_scores'][dimension] = max(0.0, min(100.0, score))
Scored(results, dimension, score) ==
    [results EXCEPT !.dimension_scores = (dimension :> Clamp(score)) @@ @]

_evaluate_completeness_unzeroed(chg, ctx, results) ==
    LET identified_areas == Len(ctx.identified_change_areas)
        sections_changed == Len(chg.sections_changed)
        coverage_ratio == IF sections_changed < identified_areas
                          THEN Q(sections_changed, identified_areas) ELSE Q(1, 1)
        s1 == QMul(Q(100, 1), coverage_ratio)
        s3 == IF Len(chg.topics_touched) = 0 THEN QMul(s1, Q(1, 2)) ELSE s1
        s4 == IF Len(chg.summary_of_the_change) < LongSummaryLength
              THEN QMul(s3, Q(7, 10)) ELSE s3
    IN Scored(Detail(Detail(Detail(results, "identified_change_areas", identified_areas),
                            "sections_changed", sections_changed),
                     "coverage_ratio", coverage_ratio), "completeness", s4)

_evaluate_completeness(chg, ctx, results) ==
    LET identified_areas == Len(ctx.identified_change_areas)
        sections_changed == Len(chg.sections_changed)
        r1 == Detail(Detail(results, "identified_change_areas", identified_areas),
                     "sections_changed", sections_changed)
        coverage_ratio == IF sections_changed < identified_areas
                          THEN Q(sections_changed, identified_areas) ELSE Q(1, 1)
        s1 == QMul(Q(100, 1), coverage_ratio)
        s2 == IF sections_changed = 0 THEN Q(0, 1) ELSE s1
        s3 == IF Len(chg.topics_touched) = 0 THEN QMul(s2, Q(1, 2)) ELSE s2
        summary_length == Len(chg.summary_of_the_change)
        s4 == IF summary_length < LongSummaryLength THEN QMul(s3, Q(7, 10))
              ELSE IF summary_length < ShortSummaryLength THEN QMul(s3, Q(3, 10))
              ELSE s3
    IN Scored(Detail(r1, "coverage_ratio", coverage_ratio), "completeness", s4)

\* re.sub(r'[^\w\s.-]', '', section.lower())
IsKeyChar(c) == c \in WordChars \cup Whitespace \cup {".", "-"}
section_key(section) == SelectSeq(lower(section), IsKeyChar)

_evaluate_accuracy(chg, original, amendment, results) ==
    LET combined_text == lower(original.raw_text) \o <<" ">> \o lower(amendment.raw_text)
        sections == chg.sections_changed
        topics == chg.topics_touched
        section_found_count ==
            Cardinality({i \in 1..Len(sections) :
                           Contains(combined_text, section_key(sections[i]))})
        section_accuracy == Ratio(section_found_count, Len(sections))
        topic_found_count ==
            Cardinality({i \in 1..Len(topics) : Mentions(combined_text, lower(topics[i]))})
        topic_relevance == Ratio(topic_found_count, Len(topics))
        score == QMul(QAdd(QMul(section_accuracy, Q(6, 10)),
                           QMul(topic_relevance, Q(4, 10))), Q(100, 1))
    IN Scored(Detail(Detail(results, "section_accuracy", section_accuracy),
                     "topic_relevance", topic_relevance), "accuracy", score)

SentenceEnds == {".", "!", "?"}

\* [s.strip() for s in re.split(r'[.!?]+', summary) if s.strip()]
RECURSIVE SentencesFrom(_, _)
SentencesFrom(s, from) ==
    LET stops == {i \in from..Len(s) : s[i] \in SentenceEnds}
        e == IF stops = {} THEN Len(s) + 1
             ELSE CHOOSE i \in stops : \A j \in stops : i <= j
        piece == strip(SubSeq(s, from, e - 1))
        kept == IF piece = <<>> THEN <<>> ELSE <<piece>>
    IN IF stops = {} THEN kept ELSE kept \o SentencesFrom(s, e + 1)

structure_indicators ==
    {<<"f", "i", "r", "s", "t">>,
     <<"s", "e", "c", "o", "n", "d">>,
     <<"t", "h", "i", "r", "d">>,
     <<"f", "i", "n", "a", "l", "l", "y">>,
     <<"a", "d", "d", "i", "t", "i", "o", "n", "a", "l", "l", "y">>,
     <<"f", "u", "r", "t", "h", "e", "r", "m", "o", "r", "e">>,
     <<"m", "o", "r", "e", "o", "v", "e", "r">>,
     <<"h", "o", "w", "e", "v", "e", "r">>,
     <<"t", "h", "e", "r", "e", "f", "o", "r", "e">>,
     <<"c", "o", "n", "s", "e", "q", "u", "e", "n", "t", "l", "y">>}

RECURSIVE TotalWords(_)
TotalWords(sentences) ==
    IF sentences = <<>> THEN 0
    ELSE word_count(Head(sentences)) + TotalWords(Tail(sentences))

_evaluate_clarity_any_count(chg, results) ==
    LET summary == chg.summary_of_the_change
        sentences == SentencesFrom(summary, 1)
        count == Len(sentences)
        avg_sentence_length == Q(TotalWords(sentences), IF count = 0 THEN 1 ELSE count)
        r1 == Detail(results, "sentence_count", count)
        r2 == IF count > 0 THEN Detail(r1, "avg_sentence_length", avg_sentence_length)
              ELSE r1
        s1 == IF count = 1 THEN Q(70, 1) ELSE Q(100, 1)
        s2 == IF count > 0 /\ (\/ QLess(avg_sentence_length, Q(MinSentenceWords, 1))
                               \/ QLess(Q(MaxSentenceWords, 1), avg_sentence_length))
              THEN QMul(s1, Q(8, 10)) ELSE s1
        has_structure ==
            \E indicator \in structure_indicators : Contains(lower(summary), indicator)
        s3 == IF ~has_structure THEN QMul(s2, Q(9, 10)) ELSE s2
    IN Scored(Detail(r2, "has_structure_indicators", has_structure), "clarity", s3)

_evaluate_clarity(chg, results) ==
    LET summary == chg.summary_of_the_change
        sentences == SentencesFrom(summary, 1)
        count == Len(sentences)
        r1 == Detail(results, "sentence_count", count)
        s1 == IF count = 1 THEN QMul(Q(100, 1), Q(7, 10)) ELSE Q(100, 1)
        avg_sentence_length == Q(TotalWords(sentences), IF count = 0 THEN 1 ELSE count)
        r2 == IF count > 0 THEN Detail(r1, "avg_sentence_length", avg_sentence_length)
              ELSE r1
        s2 == IF count > 0 /\ (\/ QLess(avg_sentence_length, Q(MinSentenceWords, 1))
                               \/ QLess(Q(MaxSentenceWords, 1), avg_sentence_length))
              THEN QMul(s1, Q(8, 10)) ELSE s1
        has_structure ==
            \E indicator \in structure_indicators : Contains(lower(summary), indicator)
        s3 == IF ~has_structure /\ count > 2 THEN QMul(s2, Q(9, 10)) ELSE s2
    IN Scored(Detail(r2, "has_structure_indicators", has_structure), "clarity", s3)

generic_topics ==
    {<<"g", "e", "n", "e", "r", "a", "l">>,
     <<"m", "i", "s", "c", "e", "l", "l", "a", "n", "e", "o", "u", "s">>,
     <<"o", "t", "h", "e", "r">>,
     <<"v", "a", "r", "i", "o", "u", "s">>,
     <<"c", "h", "a", "n", "g", "e", "s">>,
     <<"u", "p", "d", "a", "t", "e", "s">>,
     <<"m", "o", "d", "i", "f", "i", "c", "a", "t", "i", "o", "n", "s">>}
broad_sections ==
    {<<"a", "l", "l", " ", "s", "e", "c", "t", "i", "o", "n", "s">>,
     <<"e", "n", "t", "i", "r", "e", " ", "d", "o", "c", "u", "m", "e", "n", "t">>,
     <<"w", "h", "o", "l", "e", " ", "c", "o", "n", "t", "r", "a", "c", "t">>}

_evaluate_relevance(chg, original, amendment, results) ==
    LET sections == chg.sections_changed
        topics == chg.topics_touched
        generic_count ==
            Cardinality({i \in 1..Len(topics) :
                           \E gen \in generic_topics : Contains(lower(topics[i]), gen)})
        s1 == IF generic_count > 0
              THEN QMul(Q(100, 1),
                        QAdd(Q(1, 1), QMul(Q(generic_count, Len(topics)), Q(-3, 10))))
              ELSE Q(100, 1)
        broad == \E i \in 1..Len(sections) : lower(sections[i]) \in broad_sections
        s2 == IF broad THEN QMul(s1, Q(1, 2)) ELSE s1
        s3 == IF Len(topics) > Len(sections) * 2 THEN QMul(s2, Q(8, 10))
              ELSE IF 2 * Len(topics) < Len(sections) THEN QMul(s2, Q(9, 10))
              ELSE s2
    IN Scored(Detail(Detail(results, "generic_topics_count", generic_count),
                     "overly_broad_sections", broad), "relevance", s3)

_evaluate_consistency(chg, ctx, results) ==
    LET sections == chg.sections_changed
        topics == chg.topics_touched
        summary_lower == lower(chg.summary_of_the_change)
        context_lower == lower(ctx.context_summary)
        sections_in_summary ==
            Cardinality({i \in 1..Len(sections) : Mentions(summary_lower, sections[i])})
        section_summary_consistency == Ratio(sections_in_summary, Len(sections))
        topics_in_summary ==
            Cardinality({i \in 1..Len(topics) : Mentions(summary_lower, topics[i])})
        topic_summary_consistency == Ratio(topics_in_summary, Len(topics))
        changes_align_with_context ==
            Cardinality({i \in 1..Len(sections) : Mentions(context_lower, sections[i])})
        context_consistency == Ratio(changes_align_with_context, Len(sections))
        score == QMul(QAdd(QAdd(QMul(section_summary_consistency, Q(4, 10)),
                                QMul(topic_summary_consistency, Q(3, 10))),
                           QMul(context_consistency, Q(3, 10))), Q(100, 1))
        r1 == Detail(results, "section_summary_consistency", section_summary_consistency)
        r2 == Detail(r1, "topic_summary_consistency", topic_summary_consistency)
    IN Scored(Detail(r2, "context_consistency", context_consistency), "consistency", score)

\* the five scoring steps of evaluate_output, in order
scoring_steps(chg, original, amendment, ctx) ==
    LET r1 == _evaluate_completeness(chg, ctx, NewEvaluation)
        r2 == _evaluate_accuracy(chg, original, amendment, r1)
        r3 == _evaluate_clarity(chg, r2)
        r4 == _evaluate_relevance(chg, original, amendment, r3)
    IN _evaluate_consistency(chg, ctx, r4)

RECURSIVE QSum(_, _)
QSum(scores, keys) ==
    IF keys = {} THEN Q(0, 1)
    ELSE LET k == CHOOSE key \in keys : TRUE
         IN QAdd(scores[k], QSum(scores, keys \ {k}))

mean_weighted(dimension_scores) ==
    QMul(QAdd(QSum(dimension_scores, DOMAIN dimension_scores),
              dimension_scores["completeness"]),
         Q(1, Cardinality(DOMAIN dimension_scores) + 1))

\* sum(dimension_scores.values()) / len(dimension_scores)
mean(dimension_scores) ==
    QMul(QSum(dimension_scores, DOMAIN dimension_scores),
         Q(1, Cardinality(DOMAIN dimension_scores)))

GradeA == 90
GradeB == 80
GradeC == 70
GradeD == 60

AtLeast(score, threshold) == ~QLess(score, Q(threshold, 1))

_assign_grade_exclusive(score) ==
    IF QLess(Q(GradeA, 1), score) THEN "A"
    ELSE IF QLess(Q(GradeB, 1), score) THEN "B"
    ELSE IF QLess(Q(GradeC, 1), score) THEN "C"
    ELSE IF QLess(Q(GradeD, 1), score) THEN "D"
    ELSE "F"

_assign_grade(score) ==
    IF AtLeast(score, GradeA) THEN "A"
    ELSE IF AtLeast(score, GradeB) THEN "B"
    ELSE IF AtLeast(score, GradeC) THEN "C"
    ELSE IF AtLeast(score, GradeD) THEN "D"
    ELSE "F"

\* details.get(key, default)
Get(details, key, default) == IF key \in DOMAIN details THEN details[key] ELSE default

Recommend_always(condition, message) == <<message>>

\* recommendations.append(message) under "if condition:"
Recommend(condition, message) == IF condition THEN <<message>> ELSE <<>>

\* raised: len() of the int details['sections_changed'] is a TypeError
_generate_recommendations(results) ==
    LET scores == results.dimension_scores
        details == results.details
        Below(dimension) == QLess(scores[dimension], Q(RecommendationThreshold, 1))
        type_error == Below("completeness") /\ "sections_changed" \in DOMAIN details
        recommendations ==
            Recommend(/\ Below("completeness")
                      /\ QLess(Get(details, "coverage_ratio", Q(1, 1)), Q(1, 1)),
                      "Ensure all identified change areas are covered in the extraction")
            \o Recommend(Below("completeness") /\ "sections_changed" \notin DOMAIN details,
                         "No sections identified - review the extraction logic")
            \o Recommend(/\ Below("accuracy")
                         /\ QLess(Get(details, "section_accuracy", Q(1, 1)), Q(7, 10)),
                         "Some sections do not appear in source documents - verify section references")
            \o Recommend(/\ Below("accuracy")
                         /\ QLess(Get(details, "topic_relevance", Q(1, 1)), Q(7, 10)),
                         "Topics may not be well-grounded in document content - improve topic extraction")
            \o Recommend(/\ Below("clarity")
                         /\ ~Get(details, "has_structure_indicators", FALSE),
                         "Add structure indicators (First, Second, Additionally) to improve summary clarity")
            \o Recommend(/\ Below("clarity")
                         /\ QLess(Q(MaxSentenceWords, 1),
                                  Get(details, "avg_sentence_length", Q(20, 1))),
                         "Break long sentences into shorter, clearer statements")
            \o Recommend(Below("relevance") /\ Get(details, "generic_topics_count", 0) > 0,
                         "Replace generic topics with more specific business/legal concepts")
            \o Recommend(Below("relevance") /\ Get(details, "overly_broad_sections", FALSE),
                         "Identify specific sections rather than broad references")
            \o Recommend(/\ Below("consistency")
                         /\ QLess(Get(details, "section_summary_consistency", Q(1, 1)),
                                  Q(1, 2)),
                         "Ensure all sections are explicitly mentioned in the summary")
            \o Recommend(/\ Below("consistency")
                         /\ QLess(Get(details, "topic_summary_consistency", Q(1, 1)),
                                  Q(1, 2)),
                         "Ensure all topics are discussed in the summary")
    IN [raised |-> type_error,
        results |-> IF type_error THEN results
                    ELSE [results EXCEPT !.recommendations = recommendations]]

\* evaluate_output after the scoring steps: overall score, grade, recommendations
evaluate_scored(results) ==
    LET overall_score == mean(results.dimension_scores)
    IN _generate_recommendations(
           [results EXCEPT !.overall_score = overall_score,
                           !.grade = _assign_grade(overall_score)])

\* [raised, results]: results is returned unless raised
evaluate_output(chg, original, amendment, ctx) ==
    CHOOSE outcome_of \in {evaluate_scored(results) :
                             results \in {scoring_steps(chg, original, amendment, ctx)}} : TRUE

None == "None"

\* {'error': message, 'score': None}
ErrorPayload(message) == ("error" :> message) @@ ("score" :> None)

\* what chat.completions.create does and, if it returns, the parsed content
LlmReplies ==
    {[kind |-> k, payload |-> <<>>] : k \in {"raise", "empty", "text"}}
    \cup {[kind |-> "json", payload |-> scores] :
            scores \in {("legal_accuracy" :> 8) @@ ("business_relevance" :> 7)
                          @@ ("summary_quality" :> 9),
                        ("legal_accuracy" :> 3)}}

evaluate_with_llm_unguarded(client, reply) ==
    IF ~client
    THEN [raised |-> FALSE, payload |-> ErrorPayload("LLM client not initialized")]
    ELSE [raised |-> reply.kind # "json", payload |-> reply.payload]

\* [raised, payload]; json.loads of a missing or non-JSON content raises inside the try
evaluate_with_llm(client, reply) ==
    IF ~client
    THEN [raised |-> FALSE, payload |-> ErrorPayload("LLM client not initialized")]
    ELSE IF reply.kind = "json"
         THEN [raised |-> FALSE, payload |-> reply.payload]
         ELSE [raised |-> FALSE, payload |-> ErrorPayload("LLM evaluation failed")]

(***************************************************************************)
(* Inputs of the record construction                                       *)
(***************************************************************************)
MaxSections == 4
MaxTopics == 2

SeqsUpTo(S, n) == UNION {[1..k -> S] : k \in 0..n}

SectionStrings == {<<"A">>, <<"B">>, <<"C">>, <<" ", "A", " ">>, <<" ">>}
TopicStrings == {<<"T">>, <<"U">>, <<"\t">>}

PadLengths == 0..1
BodyLengths == (MinSummaryLength - 1)..MinSummaryLength

\* leading blanks, a body without blanks at its ends, trailing blanks
Summary(lead, body, trail) == Rep(" ", lead) \o Rep("x", body) \o Rep("\n", trail)

SummaryStrings ==
    {Summary(l, b, t) : l \in PadLengths, b \in BodyLengths, t \in PadLengths}

DataInputs ==
    [sections_changed : SeqsUpTo(SectionStrings, MaxSections),
     topics_touched : SeqsUpTo(TopicStrings, MaxTopics),
     summary_of_the_change : SummaryStrings]

(***************************************************************************)
(* Inputs of a pipeline run: the files, and what the collaborators answer  *)
(***************************************************************************)
Filler(n) == RepeatSeq(<<"a", "b", " ">>, n)
Header == <<"S", "e", "c", "t", "i", "o", "n", " ", "1", "\n">>

PlainText == Header \o Filler(20)
NoSectionText == Filler(20)
FewWordsText == RepeatSeq(<<"a", "b", "c", "d", "e", " ">>, 10)
ShortText == Header \o Filler(5)
SsnText == PlainText \o <<"1", "2", "3", "-", "4", "5", "-", "6", "7", "8", "9">>
ScriptText == PlainText \o <<"<", "S", "c", "r", "i", "p", "t", ">">>

VisionTexts == {PlainText, NoSectionText, FewWordsText, ShortText, SsnText, ScriptText}

VisionReplies ==
    {[kind |-> "raise", text |-> <<>>]} \cup {[kind |-> "text", text |-> t] : t \in VisionTexts}

File(extension, exists) ==
    [given |-> TRUE, exists |-> exists, extension |-> extension, size |-> 2048,
     opens |-> exists]

Files == {File(".png", TRUE), File(".webp", TRUE), File(".png", FALSE)}

ContextFields(structure, mapping, areas, summary) ==
    [document_structure |-> structure, corresponding_sections |-> mapping,
     identified_change_areas |-> areas, context_summary |-> summary]

GoodContextFields(areas) ==
    ContextFields(Rep("d", 100), (<<"A">> :> <<"A">>), areas, Rep("c", 50))

NoFields1 == ContextFields(<<>>, <<>>, <<>>, <<>>)
NoFields2 ==
    [sections_changed |-> <<>>, topics_touched |-> <<>>, summary_of_the_change |-> <<>>]

Stage1Replies ==
    {[kind |-> k, keys |-> {}, fields |-> NoFields1] : k \in {"raise", "empty", "text"}}
    \cup {[kind |-> "json", keys |-> ContextKeys, fields |-> f] :
            f \in { GoodContextFields(<<<<"A">>>>),
                    GoodContextFields(<<<<"A">>, <<"B">>>>),
                    GoodContextFields(<<>>),
                    ContextFields(Rep("d", 100), <<>>, <<<<"A">>>>, Rep("c", 50)),
                    ContextFields(Rep("d", 99), (<<"A">> :> <<"A">>), <<<<"A">>>>,
                                  Rep("c", 50)) }}
    \cup {[kind |-> "json", keys |-> ContextKeys \ {k},
           fields |-> GoodContextFields(<<<<"A">>>>)] : k \in ContextKeys}

ReplyData ==
    [sections_changed : {<<<<"A">>>>, <<<<"A">>, <<"A">>, <<"B">>>>, <<<<" ">>>>},
     topics_touched : {<<<<"T">>>>, <<<<"U">>>>, <<<<"T">>, <<"U">>, <<"T">>>>},
     summary_of_the_change : {Summary(0, 100, 0), Summary(1, 99, 0), Summary(1, 200, 1)}]

Stage2Replies ==
    {[kind |-> k, keys |-> {}, fields |-> NoFields2] : k \in {"raise", "empty", "text"}}
    \cup {[kind |-> "json", keys |-> ChangeKeys, fields |-> f] : f \in ReplyData}
    \cup {[kind |-> "json", keys |-> ChangeKeys \ {k},
           fields |-> [sections_changed |-> <<<<"A">>>>, topics_touched |-> <<<<"T">>>>,
                       summary_of_the_change |-> Summary(0, 100, 0)]] : k \in ChangeKeys}

(***************************************************************************)
(* process_contract_comparison (main.py) and                               *)
(* process_contract_comparison_enhanced (main_enhanced.py)                 *)
(***************************************************************************)
NoOutcome == [status |-> "running", tag |-> "", stage_tag |-> "", cause |-> ""]

NewMetadata ==
    [guardrails_results |-> <<>>, evaluation_results |-> <<>>,
     warnings |-> <<>>, errors |-> <<>>]

\* nothing parsed, analysed or recorded yet
PipelineFresh ==
    /\ original_contract = NoContract
    /\ amendment_contract = NoContract
    /\ context = NoContext
    /\ changes = NoOutput
    /\ metadata = NewMetadata
    /\ calls = [vision |-> 0, agent1 |-> 0, agent2 |-> 0,
                stage1_reply |-> "none", stage2_reply |-> "none"]
    /\ log = <<>>
    /\ outcome = NoOutcome

PipelineStart == pc = "step1_parse" /\ PipelineFresh

NoCall == [method |-> "none"]
UnitIdle == call = NoCall /\ returned = <<>>

Guarded == variant = "enhanced" /\ enable_guardrails
Evaluated == variant = "enhanced" /\ enable_evaluation

\* raise Exception(f"{tag}: {stage_tag}: {cause}") leaves the entry point
Raise(tag, stage_tag, cause) ==
    /\ outcome' = [status |-> "raised", tag |-> tag, stage_tag |-> stage_tag,
                   cause |-> cause]
    /\ pc' = "done"

Enter(step) == log' = Append(log, step)

From_dropped(source, messages) == <<>>

\* metadata[...].append(f"{source}: {message}") for each message
From(source, messages) ==
    [i \in 1..Len(messages) |-> [from |-> source, msg |-> messages[i].msg]]

InputRejected_never(validation) == FALSE

\* "if not validation['is_valid']:"
InputRejected(validation) == ~validation.is_valid

\* "if not safety['is_safe']:"
Unsafe(safety) == ~safety.is_safe

Params == <<variant, enable_guardrails, enable_evaluation, enable_llm_eval,
           original_file, amendment_file>>

\* STEP 1: original_contract = parse_contract_image(...)
ParseOriginal ==
    /\ pc = "step1_parse"
    /\ Enter("parse_original")
    /\ \E reply \in VisionReplies :
         LET parsed == parse_contract_image(original_file, Original, reply)
         IN /\ calls' = IF validate_image(original_file)
                        THEN [calls EXCEPT !.vision = @ + 1] ELSE calls
            /\ original_contract' = parsed
            /\ IF parsed.ok
               THEN /\ pc' = IF Guarded THEN "step1_validate" ELSE "step2_parse"
                    /\ UNCHANGED outcome
               ELSE Raise("Failed to parse original contract", "",
                          IF validate_image(original_file)
                          THEN "Failed to parse contract image"
                          ELSE "Image validation failed")
    /\ UNCHANGED <<mvars, uvars, Params, amendment_contract, context, changes, metadata>>

\* STEP 1, "if guardrails:": validation = guardrails.validate_input(...)
ValidateOriginal ==
    /\ pc = "step1_validate"
    /\ Enter("validate_original")
    /\ LET validation == validate_input(original_contract, original_file)
       IN IF InputRejected(validation)
          THEN /\ metadata' =
                     [metadata EXCEPT
                        !.guardrails_results = ("original" :> validation) @@ @,
                        !.errors = Append(@, [from |-> "Original",
                                              msg |-> "failed validation"])]
               /\ Raise("Failed to parse original contract", "",
                        "Original contract failed validation")
          ELSE /\ metadata' =
                     [metadata EXCEPT
                        !.guardrails_results = ("original" :> validation) @@ @,
                        !.warnings = @ \o From("Original", validation.warnings)]
               /\ pc' = "step1_safety"
               /\ UNCHANGED outcome
    /\ UNCHANGED <<mvars, uvars, Params, original_contract, amendment_contract, context, changes, calls>>

\* STEP 1: safety = safety_guardrails.check_content_safety(original_contract.raw_text)
SafetyOriginal ==
    /\ pc = "step1_safety"
    /\ Enter("safety_original")
    /\ IF Unsafe(check_content_safety(original_contract.raw_text))
       THEN Raise("Failed to parse original contract", "", "Safety check failed")
       ELSE pc' = "step2_parse" /\ UNCHANGED outcome
    /\ UNCHANGED <<mvars, uvars, Params, original_contract, amendment_contract, context, changes,
                   metadata, calls>>

\* STEP 2: amendment_contract = parse_contract_image(...)
ParseAmendment ==
    /\ pc = "step2_parse"
    /\ Enter("parse_amendment")
    /\ \E reply \in VisionReplies :
         LET parsed == parse_contract_image(amendment_file, Amendment, reply)
         IN /\ calls' = IF validate_image(amendment_file)
                        THEN [calls EXCEPT !.vision = @ + 1] ELSE calls
            /\ amendment_contract' = parsed
            /\ IF parsed.ok
               THEN /\ pc' = IF Guarded THEN "step2_validate" ELSE "step3"
                    /\ UNCHANGED outcome
               ELSE Raise("Failed to parse amendment contract", "",
                          IF validate_image(amendment_file)
                          THEN "Failed to parse contract image"
                          ELSE "Image validation failed")
    /\ UNCHANGED <<mvars, uvars, Params, original_contract, context, changes, metadata>>

ValidateAmendment ==
    /\ pc = "step2_validate"
    /\ Enter("validate_amendment")
    /\ LET validation == validate_input(amendment_contract, amendment_file)
       IN IF InputRejected(validation)
          THEN /\ metadata' =
                     [metadata EXCEPT
                        !.guardrails_results = ("amendment" :> validation) @@ @,
                        !.errors = Append(@, [from |-> "Amendment",
                                              msg |-> "failed validation"])]
               /\ Raise("Failed to parse amendment contract", "",
                        "Amendment contract failed validation")
          ELSE /\ metadata' =
                     [metadata EXCEPT
                        !.guardrails_results = ("amendment" :> validation) @@ @,
                        !.warnings = @ \o From("Amendment", validation.warnings)]
               /\ pc' = "step2_safety"
               /\ UNCHANGED outcome
    /\ UNCHANGED <<mvars, uvars, Params, original_contract, amendment_contract, context, changes, calls>>

SafetyAmendment ==
    /\ pc = "step2_safety"
    /\ Enter("safety_amendment")
    /\ IF Unsafe(check_content_safety(amendment_contract.raw_text))
       THEN Raise("Failed to parse amendment contract", "", "Safety check failed")
       ELSE pc' = "step3" /\ UNCHANGED outcome
    /\ UNCHANGED <<mvars, uvars, Params, original_contract, amendment_contract, context, changes,
                   metadata, calls>>

\* STEP 3: context = agent1.analyze(original_contract, amendment_contract)
Agent1 ==
    /\ pc = "step3"
    /\ Enter("agent1")
    /\ \E reply \in Stage1Replies :
         LET err == analyze_error(reply)
         IN /\ calls' = [calls EXCEPT !.agent1 = @ + analyze_calls(reply),
                                      !.stage1_reply = ReplyCause(reply, ContextKeys)]
            /\ context' = analyze(reply)
            /\ IF err.ok
               THEN pc' = "step4" /\ UNCHANGED outcome
               ELSE Raise(IF variant = "basic" THEN "Agent 1 (Contextualization) failed"
                          ELSE "Agent 1 failed", err.tag, err.cause)
    /\ UNCHANGED <<mvars, uvars, Params, original_contract, amendment_contract, changes, metadata>>

\* STEP 4: changes = agent2.extract_changes(original_contract, amendment_contract, context)
Agent2 ==
    /\ pc = "step4"
    /\ Enter("agent2")
    /\ \E reply \in Stage2Replies :
         LET err == extract_changes_error(reply)
         IN /\ calls' = [calls EXCEPT !.agent2 = @ + extract_changes_calls(reply),
                                      !.stage2_reply = ReplyCause(reply, ChangeKeys)]
            /\ changes' = extract_changes(reply)
            /\ IF err.ok
               THEN /\ pc' = IF variant = "basic" \/ Guarded THEN "step5"
                             ELSE IF Evaluated THEN "step6" ELSE "return"
                    /\ UNCHANGED outcome
               ELSE Raise(IF variant = "basic" THEN "Agent 2 (Extraction) failed"
                          ELSE "Agent 2 failed", err.tag, err.cause)
    /\ UNCHANGED <<mvars, uvars, Params, original_contract, amendment_contract, context, metadata>>

\* STEP 5 of main.py: only reports that the output was validated by Agent 2
ReportValidation ==
    /\ pc = "step5"
    /\ variant = "basic"
    /\ Enter("report_validation")
    /\ pc' = "return"
    /\ UNCHANGED <<mvars, uvars, Params, original_contract, amendment_contract, context, changes,
                   metadata, calls, outcome>>

ValidateOutput_lowering ==
    /\ pc = "step5"
    /\ Guarded
    /\ Enter("validate_output")
    /\ LET output_validation == validate_output(changes, original_contract,
                                                amendment_contract)
       IN metadata' =
              [metadata EXCEPT
                 !.guardrails_results = ("output" :> output_validation) @@ @,
                 !.errors = IF ~output_validation.is_valid
                            THEN @ \o From("Output", output_validation.errors) ELSE @,
                 !.warnings = @ \o From("Output", output_validation.warnings)]
    /\ changes' = [changes EXCEPT
                     !.topics_touched = [i \in 1..Len(@) |-> lower(@[i])]]
    /\ pc' = IF Evaluated THEN "step6" ELSE "return"
    /\ UNCHANGED <<mvars, uvars, Params, original_contract, amendment_contract, context,
                   calls, outcome>>

\* STEP 5 of main_enhanced.py, "if guardrails:"
ValidateOutput ==
    /\ pc = "step5"
    /\ Guarded
    /\ Enter("validate_output")
    /\ LET output_validation == validate_output(changes, original_contract,
                                                amendment_contract)
       IN metadata' =
              [metadata EXCEPT
                 !.guardrails_results = ("output" :> output_validation) @@ @,
                 !.errors = IF ~output_validation.is_valid
                            THEN @ \o From("Output", output_validation.errors) ELSE @,
                 !.warnings = @ \o From("Output", output_validation.warnings)]
    /\ pc' = IF Evaluated THEN "step6" ELSE "return"
    /\ UNCHANGED <<mvars, uvars, Params, original_contract, amendment_contract, context, changes,
                   calls, outcome>>

Evaluate_aborting ==
    /\ pc = "step6"
    /\ Enter("evaluate")
    /\ \E evaluation \in {evaluate_output(changes, original_contract,
                                           amendment_contract, context)} :
         IF evaluation.raised
         THEN /\ Raise("Evaluation failed", "", "TypeError")
              /\ UNCHANGED metadata
         ELSE /\ metadata' = [metadata EXCEPT
                                !.evaluation_results = ("rule_based" :> evaluation.results) @@ @]
              /\ pc' = "return"
              /\ UNCHANGED outcome
    /\ UNCHANGED <<mvars, uvars, Params, original_contract, amendment_contract, context, changes,
                   calls>>

\* STEP 6 of main_enhanced.py, "if evaluator:"; the evaluator holds the OpenAI client
Evaluate ==
    /\ pc = "step6"
    /\ Enter("evaluate")
    /\ \E evaluation \in {evaluate_output(changes, original_contract,
                                           amendment_contract, context)} :
       LET failed(m, cause) ==
               [m EXCEPT !.warnings = Append(@, [from |-> "Evaluation", msg |-> cause])]
           rule_based ==
               [metadata EXCEPT
                  !.evaluation_results = ("rule_based" :> evaluation.results) @@ @]
       IN IF evaluation.raised THEN metadata' = failed(metadata, "TypeError")
          ELSE IF ~enable_llm_eval THEN metadata' = rule_based
          ELSE \E reply \in LlmReplies :
                 LET llm_eval == evaluate_with_llm(TRUE, reply)
                 IN metadata' =
                        IF llm_eval.raised THEN failed(rule_based, "LLM evaluation")
                        ELSE [rule_based EXCEPT
                                !.evaluation_results =
                                    ("llm_based" :> llm_eval.payload) @@ @]
    /\ pc' = "return"
    /\ UNCHANGED <<mvars, uvars, Params, original_contract, amendment_contract, context, changes,
                   calls, outcome>>

\* return changes, ...
Return ==
    /\ pc = "return"
    /\ Enter("return")
    /\ outcome' = [NoOutcome EXCEPT !.status = "returned"]
    /\ pc' = "done"
    /\ UNCHANGED <<mvars, uvars, Params, original_contract, amendment_contract, context, changes,
                   metadata, calls>>

Init ==
    /\ variant \in {"basic", "enhanced"}
    /\ enable_guardrails \in BOOLEAN
    /\ enable_evaluation \in BOOLEAN
    /\ enable_llm_eval = FALSE   \* the default; SpecLlmEval runs with True
    /\ variant = "basic" => (~enable_guardrails /\ ~enable_evaluation)
    /\ original_file \in Files
    /\ amendment_file \in Files
    /\ PipelineStart
    /\ UnitIdle
    /\ data = NoFields2
    /\ output = NoOutput
    /\ reloaded = NoOutput
    /\ mpc = "idle"

Next ==
    \/ ParseOriginal
    \/ ValidateOriginal
    \/ SafetyOriginal
    \/ ParseAmendment
    \/ ValidateAmendment
    \/ SafetyAmendment
    \/ Agent1
    \/ Agent2
    \/ ReportValidation
    \/ ValidateOutput
    \/ Evaluate
    \/ Return

Spec == Init /\ [][Next]_vars

(***************************************************************************)
(* The guardrails called on documents and outputs built by hand, as a unit *)
(* test builds them: ParsedContract.model_construct(...) or an attribute   *)
(* assignment skips the validators, so the text may be shorter than 50     *)
(***************************************************************************)
Document(raw_text, document_type, sections_identified) ==
    [ok |-> TRUE, raw_text |-> raw_text, document_type |-> document_type,
     sections_identified |-> sections_identified]

Ssn == <<"1", "2", "3", "-", "4", "5", "-", "6", "7", "8", "9">>
Mail == <<"a", ".", "b", "@", "c", "d", ".", "o", "r", "g">>
Phone == <<"(", "5", "5", "5", ")", " ", "1", "2", "3", "-", "4", "5", "6", "7">>
Card ==
    <<"1", "2", "3", "4", " ", "1", "2", "3", "4", "-", "1", "2", "3", "4",
      "1", "2", "3", "4">>

Text30 == RepeatSeq(<<"a", "b", " ">>, 10)
Text49 == SubSeq(RepeatSeq(<<"a", " ">>, min_text_length), 1, min_text_length - 1)
Text50 == SubSeq(RepeatSeq(<<"a", " ">>, min_text_length), 1, min_text_length)
DigitsText == RepeatSeq(<<"1", "2", "a", " ">>, 20)
TwoSsnText == PlainText \o Ssn \o <<" ">> \o Ssn
AllSensitiveText ==
    PlainText \o Mail \o <<" ">> \o Phone \o <<" ">> \o Card \o <<" ">> \o Ssn
LongestText == SubSeq(RepeatSeq(<<"a", "b", " ">>, max_text_length), 1, max_text_length)
TooLongText == LongestText \o <<"a">>

GuardedTexts ==
    {Text30, Text49, Text50, PlainText, FewWordsText, DigitsText, SsnText, TwoSsnText,
     AllSensitiveText}
GuardedSections == {<<>>, <<Header>>, <<Header, Header>>}
GuardedFiles ==
    {NoFile, File(".png", TRUE), File(".webp", TRUE), File(".png", FALSE),
     [File(".png", TRUE) EXCEPT !.opens = FALSE],
     [File(".jpg", TRUE) EXCEPT !.size = max_file_size_bytes + 1]}

InputCalls ==
    {[method |-> "validate_input", contract |-> Document(t, Original, sec), file |-> f] :
        t \in GuardedTexts, sec \in GuardedSections, f \in GuardedFiles}
    \cup {[method |-> "validate_input", contract |-> Document(t, Original, <<Header>>),
           file |-> NoFile] : t \in {LongestText, TooLongText}}
    \cup {[method |-> "validate_input",
           contract |-> Document(PlainText, <<"d", "r", "a", "f", "t">>, <<Header>>),
           file |-> NoFile]}

HandBuiltOutput(sections_changed, topics_touched, summary_of_the_change) ==
    [ok |-> TRUE, failed |-> {}, sections_changed |-> sections_changed,
     topics_touched |-> topics_touched, summary_of_the_change |-> summary_of_the_change]

TopicT == <<"T">>
TopicU == <<"U">>
TopicAcross == <<"A", "B", " ", "S", "E", "C", "T", "I", "O", "N">>

OutputCalls ==
    {[method |-> "validate_output", out |-> HandBuiltOutput(sec, top, Rep("x", n)),
      original |-> Document(texts[1], Original, <<Header>>),
      amendment |-> Document(texts[2], Amendment, <<>>)] :
        sec \in {<<>>, <<<<"A">>>>},
        top \in {<<>>, <<TopicT>>, <<TopicU>>, <<TopicT, TopicU>>, <<TopicU, TopicT>>,
                 <<TopicAcross>>},
        n \in {MinOutputSummaryLength - 1, MinOutputSummaryLength},
        texts \in {<<PlainText, NoSectionText>>, <<NoSectionText, PlainText>>}}

ModelsIdle ==
    /\ data = NoFields2
    /\ output = NoOutput
    /\ reloaded = NoOutput
    /\ mpc = "idle"

PipelineIdle ==
    /\ variant = "basic"
    /\ enable_guardrails = FALSE
    /\ enable_evaluation = FALSE
    /\ enable_llm_eval = FALSE
    /\ original_file = NoFile
    /\ amendment_file = NoFile
    /\ PipelineStart

InitGuardrails ==
    /\ call \in InputCalls \cup OutputCalls
    /\ returned = <<>>
    /\ ModelsIdle
    /\ PipelineIdle

\* results = guardrails.validate_input(contract, file_path)
CallValidateInput ==
    /\ returned = <<>>
    /\ call.method = "validate_input"
    /\ returned' = <<validate_input(call.contract, call.file)>>
    /\ UNCHANGED <<call, mvars, pvars>>

\* results = guardrails.validate_output(output, original_contract, amendment_contract)
CallValidateOutput ==
    /\ returned = <<>>
    /\ call.method = "validate_output"
    /\ returned' = <<validate_output(call.out, call.original, call.amendment)>>
    /\ UNCHANGED <<call, mvars, pvars>>

NextGuardrails == CallValidateInput \/ CallValidateOutput

SpecGuardrails == InitGuardrails /\ [][NextGuardrails]_vars

(***************************************************************************)
(* validate_against_context called on records of the two stages           *)
(***************************************************************************)
MaxAreas == 2

Titled(id, title) == id \o IdSeparator \o title
AreaStrings ==
    {<<"A">>, Titled(<<"A">>, <<"X">>), Titled(<<"B">>, <<"Y">>),
     Titled(Titled(<<"B">>, <<"Y">>), <<"W">>), <<"C">>, NewSection}
FiveAreas == <<<<"A">>, <<"B">>, <<"C">>, <<"D">>, <<"E">>>>

AreaLists == (SeqsUpTo(AreaStrings, MaxAreas) \ {<<>>}) \cup {FiveAreas}
SectionLists ==
    (SeqsUpTo(AreaStrings, MaxAreas) \ {<<>>})
    \cup {SubSeq(FiveAreas, 1, 4), SubSeq(FiveAreas, 1, 3), FiveAreas}

ChangesWith(sections_changed) ==
    ContractChangeOutput([sections_changed |-> sections_changed,
                          topics_touched |-> <<<<"T">>>>,
                          summary_of_the_change |-> Summary(0, MinSummaryLength, 0)])

AlignmentCalls ==
    {[method |-> "validate_against_context", chg |-> ChangesWith(sec),
      ctx |-> AgentContext(GoodContextFields(areas))] :
        sec \in SectionLists, areas \in AreaLists}

InitAlignment ==
    /\ call \in AlignmentCalls
    /\ returned = <<>>
    /\ ModelsIdle
    /\ PipelineIdle

\* validation = agent.validate_against_context(changes, context)
CallValidateAgainstContext ==
    /\ returned = <<>>
    /\ call.method = "validate_against_context"
    /\ returned' = <<validate_against_context(call.chg, call.ctx)>>
    /\ UNCHANGED <<call, mvars, pvars>>

NextAlignment == CallValidateAgainstContext

SpecAlignment == InitAlignment /\ [][NextAlignment]_vars

(***************************************************************************)
(* ContractEvaluator called on outputs, documents and contexts, as a unit  *)
(* test calls it; the hand-built ones bypass the validation of models.py   *)
(***************************************************************************)
OriginalText ==
    <<"S", "e", "c", "t", "i", "o", "n", " ", "2", ".", "1", " ", "P", "a",
      "y", "m", "e", "n", "t", " ", "T", "e", "r", "m", "s", ".", " ", "T",
      "h", "e", " ", "b", "u", "y", "e", "r", " ", "s", "h", "a", "l", "l",
      " ", "p", "a", "y", " ", "a", "l", "l", " ", "i", "n", "v", "o", "i",
      "c", "e", "s", " ", "w", "i", "t", "h", "i", "n", " ", "t", "h", "i",
      "r", "t", "y", " ", "d", "a", "y", "s", " ", "o", "f", " ", "r", "e",
      "c", "e", "i", "p", "t", ".">>
AmendmentText ==
    <<"S", "e", "c", "t", "i", "o", "n", " ", "2", ".", "1", " ", "P", "a",
      "y", "m", "e", "n", "t", " ", "T", "e", "r", "m", "s", ".", " ", "T",
      "h", "e", " ", "b", "u", "y", "e", "r", " ", "s", "h", "a", "l", "l",
      " ", "p", "a", "y", " ", "a", "l", "l", " ", "i", "n", "v", "o", "i",
      "c", "e", "s", " ", "w", "i", "t", "h", "i", "n", " ", "s", "i", "x",
      "t", "y", " ", "d", "a", "y", "s", ".", " ", "S", "e", "c", "t", "i",
      "o", "n", " ", "5", " ", "L", "i", "a", "b", "i", "l", "i", "t", "y",
      " ", "i", "s", " ", "c", "a", "p", "p", "e", "d", ".">>
SectionA ==
    <<"S", "e", "c", "t", "i", "o", "n", " ", "2", ".", "1">>
SectionB ==
    <<"S", "e", "c", "t", "i", "o", "n", " ", "5", " ", "(", "L", "i", "a",
      "b", "i", "l", "i", "t", "y", ")">>
SectionBroad ==
    <<"A", "l", "l", " ", "S", "e", "c", "t", "i", "o", "n", "s">>
SectionAbsent ==
    <<"C", "l", "a", "u", "s", "e", " ", "9">>
TopicPayment ==
    <<"P", "a", "y", "m", "e", "n", "t", " ", "T", "e", "r", "m", "s">>
TopicGeneric ==
    <<"O", "t", "h", "e", "r">>
TopicAbsent ==
    <<"W", "a", "r", "r", "a", "n", "t", "y">>
StructuredSummary ==
    <<"F", "i", "r", "s", "t", ",", " ", "t", "h", "e", " ", "a", "m", "e",
      "n", "d", "m", "e", "n", "t", " ", "e", "x", "t", "e", "n", "d", "s",
      " ", "t", "h", "e", " ", "p", "a", "y", "m", "e", "n", "t", " ", "p",
      "e", "r", "i", "o", "d", " ", "i", "n", " ", "s", "e", "c", "t", "i",
      "o", "n", " ", "2", ".", "1", " ", "f", "r", "o", "m", " ", "t", "h",
      "i", "r", "t", "y", " ", "d", "a", "y", "s", " ", "t", "o", " ", "s",
      "i", "x", "t", "y", " ", "d", "a", "y", "s", " ", "f", "o", "r", " ",
      "a", "l", "l", " ", "i", "n", "v", "o", "i", "c", "e", "s", ".", " ",
      "A", "d", "d", "i", "t", "i", "o", "n", "a", "l", "l", "y", ",", " ",
      "a", " ", "n", "e", "w", " ", "l", "i", "a", "b", "i", "l", "i", "t",
      "y", " ", "c", "l", "a", "u", "s", "e", " ", "c", "a", "p", "s", " ",
      "t", "h", "e", " ", "t", "o", "t", "a", "l", " ", "e", "x", "p", "o",
      "s", "u", "r", "e", " ", "o", "f", " ", "t", "h", "e", " ", "s", "e",
      "l", "l", "e", "r", " ", "u", "n", "d", "e", "r", " ", "t", "h", "e",
      " ", "w", "h", "o", "l", "e", " ", "a", "g", "r", "e", "e", "m", "e",
      "n", "t", " ", "a", "t", " ", "t", "h", "e", " ", "f", "e", "e", "s",
      " ", "p", "a", "i", "d", ".">>
PlainSummary ==
    <<"T", "h", "e", " ", "a", "m", "e", "n", "d", "m", "e", "n", "t", " ",
      "e", "x", "t", "e", "n", "d", "s", " ", "t", "h", "e", " ", "p", "a",
      "y", "m", "e", "n", "t", " ", "p", "e", "r", "i", "o", "d", " ", "f",
      "o", "r", " ", "a", "l", "l", " ", "i", "n", "v", "o", "i", "c", "e",
      "s", " ", "f", "r", "o", "m", " ", "t", "h", "i", "r", "t", "y", " ",
      "d", "a", "y", "s", " ", "t", "o", " ", "s", "i", "x", "t", "y", " ",
      "d", "a", "y", "s", ".", " ", "A", " ", "n", "e", "w", " ", "c", "l",
      "a", "u", "s", "e", " ", "c", "a", "p", "s", " ", "t", "h", "e", " ",
      "t", "o", "t", "a", "l", " ", "e", "x", "p", "o", "s", "u", "r", "e",
      " ", "o", "f", " ", "t", "h", "e", " ", "s", "e", "l", "l", "e", "r",
      " ", "a", "t", " ", "t", "h", "e", " ", "f", "e", "e", "s", " ", "p",
      "a", "i", "d", ".", " ", "E", "v", "e", "r", "y", " ", "o", "t", "h",
      "e", "r", " ", "t", "e", "r", "m", " ", "o", "f", " ", "t", "h", "e",
      " ", "a", "g", "r", "e", "e", "m", "e", "n", "t", " ", "s", "t", "a",
      "y", "s", " ", "a", "s", " ", "i", "t", " ", "w", "a", "s", " ", "w",
      "r", "i", "t", "t", "e", "n", " ", "b", "e", "f", "o", "r", "e", ".">>
OneSentenceSummary ==
    <<"T", "h", "e", " ", "a", "m", "e", "n", "d", "m", "e", "n", "t", " ",
      "e", "x", "t", "e", "n", "d", "s", " ", "t", "h", "e", " ", "p", "a",
      "y", "m", "e", "n", "t", " ", "p", "e", "r", "i", "o", "d", " ", "i",
      "n", " ", "s", "e", "c", "t", "i", "o", "n", " ", "2", ".", "1", " ",
      "f", "r", "o", "m", " ", "t", "h", "i", "r", "t", "y", " ", "d", "a",
      "y", "s", " ", "t", "o", " ", "s", "i", "x", "t", "y", " ", "d", "a",
      "y", "s", " ", "f", "o", "r", " ", "a", "l", "l", " ", "i", "n", "v",
      "o", "i", "c", "e", "s", " ", "a", "n", "d", " ", "i", "t", " ", "a",
      "d", "d", "s", " ", "a", " ", "n", "e", "w", " ", "l", "i", "a", "b",
      "i", "l", "i", "t", "y", " ", "c", "l", "a", "u", "s", "e", " ", "t",
      "h", "a", "t", " ", "c", "a", "p", "s", " ", "t", "h", "e", " ", "t",
      "o", "t", "a", "l", " ", "e", "x", "p", "o", "s", "u", "r", "e", " ",
      "o", "f", " ", "t", "h", "e", " ", "s", "e", "l", "l", "e", "r", " ",
      "u", "n", "d", "e", "r", " ", "t", "h", "e", " ", "w", "h", "o", "l",
      "e", " ", "a", "g", "r", "e", "e", "m", "e", "n", "t", " ", "a", "t",
      " ", "t", "h", "e", " ", "f", "e", "e", "s", " ", "p", "a", "i", "d">>
ChoppySummary ==
    <<"P", "a", "y", "m", "e", "n", "t", " ", "t", "e", "r", "m", "s", " ",
      "c", "h", "a", "n", "g", "e", "d", ".", " ", "T", "h", "e", " ", "p",
      "e", "r", "i", "o", "d", " ", "i", "s", " ", "n", "o", "w", " ", "s",
      "i", "x", "t", "y", " ", "d", "a", "y", "s", ".", " ", "I", "t", " ",
      "w", "a", "s", " ", "t", "h", "i", "r", "t", "y", " ", "d", "a", "y",
      "s", " ", "b", "e", "f", "o", "r", "e", ".", " ", "L", "i", "a", "b",
      "i", "l", "i", "t", "y", " ", "i", "s", " ", "n", "o", "w", " ", "c",
      "a", "p", "p", "e", "d", ".", " ", "T", "h", "e", " ", "c", "a", "p",
      " ", "e", "q", "u", "a", "l", "s", " ", "t", "h", "e", " ", "f", "e",
      "e", "s", " ", "p", "a", "i", "d", ".", " ", "N", "o", "t", "h", "i",
      "n", "g", " ", "e", "l", "s", "e", " ", "c", "h", "a", "n", "g", "e",
      "d", " ", "a", "t", " ", "a", "l", "l", ".", " ", "T", "h", "e", " ",
      "p", "a", "r", "t", "i", "e", "s", " ", "s", "t", "a", "y", " ", "t",
      "h", "e", " ", "s", "a", "m", "e", ".", " ", "T", "h", "e", " ", "p",
      "r", "i", "c", "e", " ", "s", "t", "a", "y", "s", " ", "t", "h", "e",
      " ", "s", "a", "m", "e", " ", "t", "o", "o", ".">>
MidSummary ==
    <<"T", "h", "e", " ", "a", "m", "e", "n", "d", "m", "e", "n", "t", " ",
      "e", "x", "t", "e", "n", "d", "s", " ", "t", "h", "e", " ", "p", "a",
      "y", "m", "e", "n", "t", " ", "p", "e", "r", "i", "o", "d", " ", "i",
      "n", " ", "s", "e", "c", "t", "i", "o", "n", " ", "2", ".", "1", " ",
      "f", "r", "o", "m", " ", "t", "h", "i", "r", "t", "y", " ", "d", "a",
      "y", "s", " ", "t", "o", " ", "s", "i", "x", "t", "y", " ", "d", "a",
      "y", "s", " ", "a", "n", "d", " ", "c", "a", "p", "s", " ", "l", "i",
      "a", "b", "i", "l", "i", "t", "y", " ", "a", "t", " ", "t", "h", "e",
      " ", "f", "e", "e", "s", " ", "p", "a", "i", "d", ".">>
TinySummary ==
    <<"P", "a", "y", "m", "e", "n", "t", " ", "p", "e", "r", "i", "o", "d",
      " ", "i", "s", " ", "n", "o", "w", " ", "s", "i", "x", "t", "y", " ",
      "d", "a", "y", "s", ".">>
RelatedContext ==
    <<"T", "h", "e", " ", "a", "m", "e", "n", "d", "m", "e", "n", "t", " ",
      "c", "h", "a", "n", "g", "e", "s", " ", "t", "h", "e", " ", "p", "a",
      "y", "m", "e", "n", "t", " ", "t", "e", "r", "m", "s", " ", "o", "f",
      " ", "s", "e", "c", "t", "i", "o", "n", " ", "2", ".", "1", " ", "a",
      "n", "d", " ", "c", "a", "p", "s", " ", "l", "i", "a", "b", "i", "l",
      "i", "t", "y", ".">>
UnrelatedContext ==
    <<"B", "o", "t", "h", " ", "d", "o", "c", "u", "m", "e", "n", "t", "s",
      " ", "a", "r", "e", " ", "t", "w", "o", " ", "p", "a", "g", "e", "s",
      " ", "l", "o", "n", "g", " ", "a", "n", "d", " ", "w", "e", "r", "e",
      " ", "s", "i", "g", "n", "e", "d", " ", "b", "y", " ", "t", "h", "e",
      " ", "s", "a", "m", "e", " ", "p", "a", "r", "t", "i", "e", "s", ".">>
AreaA ==
    <<"2", ".", "1", " ", "-", " ", "P", "a", "y", "m", "e", "n", "t", " ",
      "T", "e", "r", "m", "s">>
AreaB ==
    <<"5", " ", "-", " ", "L", "i", "a", "b", "i", "l", "i", "t", "y">>
AreaC ==
    <<"7", " ", "-", " ", "N", "o", "t", "i", "c", "e", "s">>
TerseSummary ==
    <<"H", "o", "w", "e", "v", "e", "r", ",", " ", "f", "e", "e", "s", " ",
      "r", "o", "s", "e", ".", " ", "T", "e", "r", "m", " ", "e", "n", "d",
      "s", ".", " ", "C", "a", "p", " ", "s", "e", "t", ".">>
LongSentenceSummary ==
    <<"t", "h", "e", " ", "b", "u", "y", "e", "r", " ", "s", "h", "a", "l",
      "l", " ", "p", "a", "y", " ", "t", "h", "e", " ", "s", "e", "l", "l",
      "e", "r", " ", "a", "n", "d", " ", "t", "h", "e", " ", "b", "u", "y",
      "e", "r", " ", "s", "h", "a", "l", "l", " ", "p", "a", "y", " ", "t",
      "h", "e", " ", "s", "e", "l", "l", "e", "r", " ", "a", "n", "d", " ",
      "t", "h", "e", " ", "b", "u", "y", "e", "r", " ", "s", "h", "a", "l",
      "l", " ", "p", "a", "y", " ", "t", "h", "e", " ", "s", "e", "l", "l",
      "e", "r", " ", "a", "n", "d", " ", "t", "h", "e", " ", "b", "u", "y",
      "e", "r", " ", "s", "h", "a", "l", "l", " ", "p", "a", "y", " ", "t",
      "h", "e", " ", "s", "e", "l", "l", "e", "r", " ", "a", "n", "d", " ",
      "t", "h", "e", " ", "b", "u", "y", "e", "r", " ", "s", "h", "a", "l",
      "l", " ", "p", "a", "y", " ", "t", "h", "e", " ", "s", "e", "l", "l",
      "e", "r", " ", "a", "n", "d", " ", "t", "h", "e", " ", "b", "u", "y",
      "e", "r", " ", "s", "h", "a", "l", "l", " ", "p", "a", "y", " ", "t",
      "h", "e", " ", "s", "e", "l", "l", "e", "r", " ", "a", "n", "d", " ",
      "t", "h", "e", " ", "b", "u", "y", "e", "r", " ", "s", "h", "a", "l",
      "l", " ", "p", "a", "y", " ", "t", "h", "e", " ", "s", "e", "l", "l",
      "e", "r", " ", "a", "n", "d", " ", "t", "h", "e", " ", "b", "u", "y",
      "e", "r", " ", "s", "h", "a", "l", "l", " ", "p", "a", "y", " ", "t",
      "h", "e", " ", "s", "e", "l", "l", "e", "r", " ", "a", "n", "d", " ",
      "n", "o", "t", "h", "i", "n", "g", " ", "e", "l", "s", "e">>
SingleSentenceSummary ==
    <<"T", "h", "e", " ", "a", "m", "e", "n", "d", "m", "e", "n", "t", " ",
      "e", "x", "t", "e", "n", "d", "s", " ", "t", "h", "e", " ", "p", "a",
      "y", "m", "e", "n", "t", " ", "p", "e", "r", "i", "o", "d", " ", "f",
      "r", "o", "m", " ", "t", "h", "i", "r", "t", "y", " ", "d", "a", "y",
      "s", " ", "t", "o", " ", "s", "i", "x", "t", "y", " ", "d", "a", "y",
      "s", " ", "f", "o", "r", " ", "a", "l", "l", " ", "i", "n", "v", "o",
      "i", "c", "e", "s">>

HandBuiltContext(areas, summary) ==
    [ok |-> TRUE, document_structure |-> Rep("d", MinDocumentStructureLength),
     corresponding_sections |-> (<<"A">> :> <<"A">>),
     identified_change_areas |-> areas, context_summary |-> summary]

EvaluatedSections ==
    {<<>>, <<SectionA>>, <<SectionA, SectionB>>, <<SectionBroad>>,
     <<SectionAbsent, SectionA, SectionB>>}
EvaluatedTopics ==
    {<<>>, <<TopicPayment>>, <<TopicGeneric>>, <<TopicPayment, TopicGeneric, TopicAbsent>>}
EvaluatedSummaries ==
    {<<>>, TinySummary, MidSummary, StructuredSummary, PlainSummary, OneSentenceSummary,
     ChoppySummary}
EvaluatedAreas == {<<>>, <<AreaA>>, <<AreaA, AreaB>>, <<AreaA, AreaB, AreaC>>}

EvaluateOutputCalls ==
    {[method |-> "evaluate_output", chg |-> HandBuiltOutput(sec, top, summary),
      original |-> Document(OriginalText, Original, <<SectionA>>),
      amendment |-> Document(AmendmentText, Amendment, <<SectionA>>),
      ctx |-> HandBuiltContext(areas, about)] :
        sec \in EvaluatedSections, top \in EvaluatedTopics,
        summary \in EvaluatedSummaries \ {<<>>, TinySummary},
        areas \in EvaluatedAreas \ {<<>>, <<AreaA, AreaB>>},
        about \in {RelatedContext, UnrelatedContext}}

CompletenessCalls ==
    {[method |-> "_evaluate_completeness", chg |-> HandBuiltOutput(sec, top, summary),
      ctx |-> HandBuiltContext(areas, RelatedContext)] :
        sec \in {<<>>, <<SectionA>>}, top \in EvaluatedTopics \ {<<TopicGeneric>>},
        summary \in {<<>>, TinySummary, MidSummary, StructuredSummary},
        areas \in EvaluatedAreas}

ClarityCalls ==
    {[method |-> "_evaluate_clarity", chg |-> HandBuiltOutput(<<SectionA>>, <<TopicPayment>>, summary)] :
        summary \in EvaluatedSummaries
                    \cup {TerseSummary, LongSentenceSummary, SingleSentenceSummary}}

\* the dimension methods patched to store a given score and no detail
StubScores == {0, 50, 59, 60, 69, 70, 79, 80, 89, 90, 100}
MixedScores == {50, 89, 90, 100}
Dimensions == {"completeness", "accuracy", "clarity", "relevance", "consistency"}

StubbedCalls ==
    {[method |-> "evaluate_output_stubbed",
      dimension_scores |-> [d \in Dimensions |-> Q(v, 1)]] : v \in StubScores}
    \cup {[method |-> "evaluate_output_stubbed",
           dimension_scores |-> [d \in Dimensions |-> Q(f[d], 1)]] :
            f \in [Dimensions -> MixedScores]}

ConstructCalls ==
    {[method |-> "ContractChangeOutput",
      fields |-> [sections_changed |-> sec, topics_touched |-> top,
                  summary_of_the_change |-> summary]] :
        sec \in {<<>>, <<SectionA>>, <<SectionA, SectionB>>},
        top \in {<<>>, <<TopicPayment>>},
        summary \in {TinySummary, StructuredSummary}}

InitEvaluator ==
    /\ call \in EvaluateOutputCalls \cup CompletenessCalls \cup StubbedCalls
                \cup ConstructCalls \cup ClarityCalls
    /\ returned = <<>>
    /\ ModelsIdle
    /\ PipelineIdle

\* results = evaluator.evaluate_output(changes, original_contract, amendment_contract, context)
CallEvaluateOutput ==
    /\ returned = <<>>
    /\ call.method = "evaluate_output"
    /\ returned' = <<evaluate_output(call.chg, call.original, call.amendment, call.ctx)>>
    /\ UNCHANGED <<call, mvars, pvars>>

\* evaluator._evaluate_completeness(changes, context, results) on a fresh results dict
CallEvaluateCompleteness ==
    /\ returned = <<>>
    /\ call.method = "_evaluate_completeness"
    /\ returned' = <<_evaluate_completeness(call.chg, call.ctx, NewEvaluation)>>
    /\ UNCHANGED <<call, mvars, pvars>>

\* evaluator._evaluate_clarity(changes, results) on a fresh results dict
CallEvaluateClarity ==
    /\ returned = <<>>
    /\ call.method = "_evaluate_clarity"
    /\ returned' = <<_evaluate_clarity(call.chg, NewEvaluation)>>
    /\ UNCHANGED <<call, mvars, pvars>>

\* evaluate_output with the five dimension methods patched
CallEvaluateOutputStubbed ==
    /\ returned = <<>>
    /\ call.method = "evaluate_output_stubbed"
    /\ returned' = <<evaluate_scored([NewEvaluation EXCEPT
                                        !.dimension_scores = call.dimension_scores])>>
    /\ UNCHANGED <<call, mvars, pvars>>

\* ContractChangeOutput(**fields)
CallConstruct ==
    /\ returned = <<>>
    /\ call.method = "ContractChangeOutput"
    /\ returned' = <<ContractChangeOutput(call.fields)>>
    /\ UNCHANGED <<call, mvars, pvars>>

NextEvaluator ==
    \/ CallEvaluateOutput
    \/ CallEvaluateCompleteness
    \/ CallEvaluateClarity
    \/ CallEvaluateOutputStubbed
    \/ CallConstruct

SpecEvaluator == InitEvaluator /\ [][NextEvaluator]_vars

(***************************************************************************)
(* The LLM-based evaluation: evaluate_with_llm called as a unit, and the   *)
(* enhanced entry point run with enable_llm_eval=True                      *)
(***************************************************************************)
LlmCalls ==
    {[method |-> "evaluate_with_llm", client |-> c, reply |-> r] :
        c \in BOOLEAN, r \in LlmReplies}

InitLlmEval ==
    /\ ModelsIdle
    /\ \/ /\ variant \in {"basic", "enhanced"}
          /\ enable_guardrails \in BOOLEAN
          /\ enable_evaluation = (variant = "enhanced")
          /\ enable_llm_eval = enable_evaluation
          /\ variant = "basic" => ~enable_guardrails
          /\ original_file \in Files
          /\ amendment_file \in Files
          /\ PipelineStart
          /\ UnitIdle
       \/ /\ call \in LlmCalls
          /\ returned = <<>>
          /\ variant = "basic"
          /\ enable_guardrails = FALSE
          /\ enable_evaluation = FALSE
          /\ enable_llm_eval = FALSE
          /\ original_file = NoFile
          /\ amendment_file = NoFile
          /\ pc = "idle"
          /\ PipelineFresh

\* llm_eval = evaluator.evaluate_with_llm(changes, original_contract, amendment_contract)
CallEvaluateWithLlm ==
    /\ pc = "idle"
    /\ returned = <<>>
    /\ call.method = "evaluate_with_llm"
    /\ returned' = <<evaluate_with_llm(call.client, call.reply)>>
    /\ UNCHANGED <<call, mvars, pvars>>

NextLlmEval ==
    \/ CallEvaluateWithLlm
    \/ Next

SpecLlmEval == InitLlmEval /\ [][NextLlmEval]_vars

(***************************************************************************)
(* AgentContext constructed as a unit test constructs it, and the two      *)
(* entry points run on a readable image                                    *)
(***************************************************************************)
ContextCalls ==
    {[method |-> "AgentContext",
      fields |-> ContextFields(Rep("d", n), mapping, areas, Rep("c", m))] :
        n \in {MinDocumentStructureLength - 1, MinDocumentStructureLength},
        mapping \in {<<>>, (<<"A">> :> <<"A">>)},
        areas \in {<<>>, <<<<"A">>>>, <<<<"A">>, <<"B">>>>},
        m \in {MinContextSummaryLength - 1, MinContextSummaryLength}}

InitContext ==
    /\ ModelsIdle
    /\ enable_llm_eval = FALSE
    /\ \/ /\ variant \in {"basic", "enhanced"}
          /\ enable_guardrails = (variant = "enhanced")
          /\ enable_evaluation = (variant = "enhanced")
          /\ original_file = File(".png", TRUE)
          /\ amendment_file = File(".png", TRUE)
          /\ PipelineStart
          /\ UnitIdle
       \/ /\ call \in ContextCalls
          /\ returned = <<>>
          /\ variant = "basic"
          /\ enable_guardrails = FALSE
          /\ enable_evaluation = FALSE
          /\ original_file = NoFile
          /\ amendment_file = NoFile
          /\ pc = "idle"
          /\ PipelineFresh

\* AgentContext(**fields)
CallAgentContext ==
    /\ pc = "idle"
    /\ returned = <<>>
    /\ call.method = "AgentContext"
    /\ returned' = <<AgentContext(call.fields)>>
    /\ UNCHANGED <<call, mvars, pvars>>

NextContext ==
    \/ CallAgentContext
    \/ Next

SpecContext == InitContext /\ [][NextContext]_vars

(***************************************************************************)
(* Record construction on its own                                          *)
(***************************************************************************)
InitModels ==
    /\ data \in DataInputs
    /\ output = NoOutput
    /\ reloaded = NoOutput
    /\ mpc = "input"
    /\ variant = "basic"
    /\ enable_guardrails = FALSE
    /\ enable_evaluation = FALSE
    /\ enable_llm_eval = FALSE
    /\ original_file = NoFile
    /\ amendment_file = NoFile
    /\ PipelineStart
    /\ UnitIdle

\* output = ContractChangeOutput(**data)
Construct ==
    /\ mpc = "input"
    /\ output' = ContractChangeOutput(data)
    /\ mpc' = "built"
    /\ UNCHANGED <<data, reloaded, uvars, pvars>>

\* reloaded = ContractChangeOutput(**output.model_dump())
Reload ==
    /\ mpc = "built"
    /\ output.ok
    /\ reloaded' = ContractChangeOutput(model_dump(output))
    /\ mpc' = "reloaded"
    /\ UNCHANGED <<data, output, uvars, pvars>>

NextModels == Construct \/ Reload

SpecModels == InitModels /\ [][NextModels]_vars

(***************************************************************************)
(* Properties of the record construction                                   *)
(***************************************************************************)
NoDuplicates(s) == \A i, j \in 1..Len(s) : i # j => s[i] # s[j]

\* v with every later repeat of a value removed
FirstOccurrences(v) ==
    Select(v, {i \in 1..Len(v) : \A j \in 1..(i - 1) : v[j] # v[i]}, 1)

Built == mpc # "input" /\ output.ok

\* C1: every constructed ContractChangeOutput stores sections_changed and
\* topics_touched without duplicates, equal to the input list with every later
\* repeat removed, first occurrences in their input order.
C1_DedupFirstOccurrence ==
    Built =>
        /\ NoDuplicates(output.sections_changed)
        /\ NoDuplicates(output.topics_touched)
        /\ output.sections_changed = FirstOccurrences(data.sections_changed)
        /\ output.topics_touched = FirstOccurrences(data.topics_touched)

C1_Witness ==
    /\ Built
    /\ data.sections_changed = <<<<"A">>, <<"B">>, <<"A">>, <<"C">>>>
    /\ output.sections_changed = <<<<"A">>, <<"B">>, <<"C">>>>
    /\ data.topics_touched = <<<<"T">>, <<"T">>>>
    /\ output.topics_touched = <<<<"T">>>>

\* t is s without its leading and trailing whitespace
IsTrimOf(t, s) ==
    /\ t = <<>> \/ (t[1] \notin Whitespace /\ t[Len(t)] \notin Whitespace)
    /\ \E i \in 0..Len(s) :
          /\ i + Len(t) <= Len(s)
          /\ SubSeq(s, i + 1, i + Len(t)) = t
          /\ \A k \in (1..i) \cup ((i + Len(t) + 1)..Len(s)) : s[k] \in Whitespace

NonBlankCount(s) == Cardinality({i \in 1..Len(s) : s[i] \notin Whitespace})

\* C2: a constructed record's summary is the trimmed input and has at least
\* 100 characters; a summary of 99 characters is rejected; a summary of exactly
\* 100 non-whitespace characters is accepted.
C2_SummaryMinLength ==
    /\ Built =>
          /\ Len(output.summary_of_the_change) >= 100
          /\ IsTrimOf(output.summary_of_the_change, data.summary_of_the_change)
    /\ (mpc # "input" /\ Len(data.summary_of_the_change) = 99) =>
          (~output.ok /\ "summary_of_the_change" \in output.failed)
    /\ (mpc # "input" /\ NonBlankCount(data.summary_of_the_change) = 100
            /\ Len(data.summary_of_the_change) = 100) =>
          "summary_of_the_change" \notin output.failed

C2_Witness ==
    /\ Built
    /\ data.summary_of_the_change = Summary(1, 100, 1)
    /\ output.summary_of_the_change = Rep("x", 100)

\* C3: in every constructed record every element of sections_changed and of
\* topics_touched is a non-empty string without leading or trailing whitespace,
\* and no two elements have the same trimmed value.
C3_ElementsTrimmed ==
    Built =>
        \A l \in {output.sections_changed, output.topics_touched} :
            /\ \A i \in 1..Len(l) : l[i] # <<>> /\ strip(l[i]) = l[i]
            /\ \A i, j \in 1..Len(l) : i # j => strip(l[i]) # strip(l[j])

\* C4: dumping a constructed record and constructing a record from the dump
\* succeeds and gives an equal record.
C4_RoundTrip ==
    mpc = "reloaded" => (reloaded.ok /\ reloaded = output)

C4_Witness ==
    /\ mpc = "reloaded"
    /\ data.sections_changed = <<<<"B">>, <<" ", "A", " ">>, <<"B">>>>
    /\ data.summary_of_the_change = Summary(1, 100, 0)
    /\ reloaded.ok

(***************************************************************************)
(* Properties of a pipeline run                                            *)
(***************************************************************************)
StepOrder ==
    <<"parse_original", "parse_amendment", "agent1", "agent2", "validate_output",
      "evaluate">>
Position(step) == CHOOSE i \in 1..Len(StepOrder) : StepOrder[i] = step
IsMainStep(step) == step \in Range(StepOrder)
MainSteps == SelectSeq(log, IsMainStep)
StepResult(k) ==
    CASE k = 1 -> original_contract.ok
      [] k = 2 -> amendment_contract.ok
      [] k = 3 -> context.ok
      [] k = 4 -> changes.ok
Occurrences(step) == Cardinality({i \in 1..Len(log) : log[i] = step})
RaisedAt(step) == outcome.status = "raised" /\ log # <<>> /\ log[Len(log)] = step

\* C5: the steps of a run happen in the order parse original, parse
\* amendment, stage 1, stage 2 and, in the enhanced entry point only, output
\* validation and evaluation; a failure of one of the first four ends the run
\* with an exception: no later step runs and no ContractChangeOutput exists.
C5_StepOrder ==
    /\ \A i \in 1..Len(MainSteps) : i <= 4 => MainSteps[i] = StepOrder[i]
    /\ \A i, j \in 1..Len(MainSteps) :
         i < j => Position(MainSteps[i]) < Position(MainSteps[j])
    /\ variant = "basic" => Len(MainSteps) <= 4
    /\ \A k \in 1..4 :
         (k <= Len(MainSteps) /\ ~StepResult(k)) =>
            /\ RaisedAt(StepOrder[k])
            /\ Len(MainSteps) = k
            /\ pc = "done"
            /\ ~changes.ok
    /\ outcome.status = "returned" => \A k \in 1..4 : StepResult(k)
    /\ pc = "done" => ~ENABLED Next

C5_Witness ==
    /\ outcome.status = "returned"
    /\ variant = "enhanced"
    /\ MainSteps = StepOrder

\* C6: each stage calls its collaborator exactly once per run, whatever the
\* reply: a stage that fails is not called again.
C6_OneCallPerStage ==
    /\ Occurrences("agent1") <= 1
    /\ Occurrences("agent2") <= 1
    /\ calls.agent1 = Occurrences("agent1")
    /\ calls.agent2 = Occurrences("agent2")
    /\ pc = "done" /\ context.ok => calls.agent1 = 1 /\ calls.agent2 = 1

C6_Witness ==
    /\ RaisedAt("agent1")
    /\ calls.stage1_reply = "text"
    /\ calls.agent1 = 1
    /\ calls.agent2 = 0

FailureCauses == {"empty", "text", "missing_key"}

\* C7: at each stage an empty reply, a reply that is no JSON and a JSON reply
\* that lacks a required key are raised with tags of their own: the tag a
\* stage raised for one of these causes is the tag of no reply of another cause.
C7_OwnTagPerCause ==
    /\ (RaisedAt("agent1") /\ calls.stage1_reply \in FailureCauses) =>
          \A reply \in Stage1Replies :
             LET cause == ReplyCause(reply, ContextKeys)
             IN (cause \in FailureCauses /\ cause # calls.stage1_reply) =>
                   analyze_error(reply).tag # outcome.stage_tag
    /\ (RaisedAt("agent2") /\ calls.stage2_reply \in FailureCauses) =>
          \A reply \in Stage2Replies :
             LET cause == ReplyCause(reply, ChangeKeys)
             IN (cause \in FailureCauses /\ cause # calls.stage2_reply) =>
                   extract_changes_error(reply).tag # outcome.stage_tag

GuardrailsOn == variant = "enhanced" /\ enable_guardrails
InputErrors(contract, file) == validate_input(contract, file).errors
IsUnsafe(contract) == ~check_content_safety(contract.raw_text).is_safe
OriginalBlocked ==
    original_contract.ok
    /\ (InputErrors(original_contract, original_file) # <<>> \/ IsUnsafe(original_contract))
AmendmentBlocked ==
    amendment_contract.ok
    /\ (InputErrors(amendment_contract, amendment_file) # <<>>
        \/ IsUnsafe(amendment_contract))

\* C8: with guardrails enabled in the enhanced entry point, a contract whose
\* input validation reports errors or whose text is unsafe ends the run with an
\* exception before stage 1 is called, and for the original contract before
\* the amendment is parsed.
C8_InputGuardsAbort ==
    GuardrailsOn =>
       /\ (OriginalBlocked /\ pc \notin {"step1_validate", "step1_safety"}) =>
             /\ outcome.status = "raised"
             /\ outcome.tag = "Failed to parse original contract"
             /\ Occurrences("parse_amendment") = 0
             /\ calls.agent1 = 0
       /\ (AmendmentBlocked /\ pc \notin {"step2_validate", "step2_safety"}) =>
             /\ outcome.status = "raised"
             /\ outcome.tag = "Failed to parse amendment contract"
             /\ calls.agent1 = 0

C8_Witness ==
    /\ GuardrailsOn
    /\ RaisedAt("validate_original")
    /\ InputErrors(original_contract, original_file) # <<>>
    /\ calls.agent1 = 0

Listed(source, messages) ==
    \A i \in 1..Len(messages) :
       \E j \in 1..Len(metadata.warnings) :
          metadata.warnings[j] = [from |-> source, msg |-> messages[i].msg]
CleanRun ==
    /\ original_contract.ok /\ amendment_contract.ok
    /\ GuardrailsOn => ~OriginalBlocked /\ ~AmendmentBlocked
    /\ context.ok /\ changes.ok
InputWarnings == 
    validate_input(original_contract, original_file).warnings
    \o validate_input(amendment_contract, amendment_file).warnings
OutputWarnings == validate_output(changes, original_contract, amendment_contract).warnings

\* C10: in the enhanced entry point warnings never end a run: a run whose
\* inputs pass validation and safety and whose stages succeed returns the
\* ContractChangeOutput, and with guardrails enabled every warning of input
\* and output validation is in the returned metadata's warnings.
C10_WarningsKept ==
    (variant = "enhanced" /\ pc = "done" /\ CleanRun) =>
       /\ outcome.status = "returned"
       /\ GuardrailsOn =>
            /\ Listed("Original", validate_input(original_contract, original_file).warnings)
            /\ Listed("Amendment",
                      validate_input(amendment_contract, amendment_file).warnings)
            /\ Listed("Output", OutputWarnings)

C10_Witness ==
    /\ variant = "enhanced" /\ GuardrailsOn
    /\ outcome.status = "returned"
    /\ InputWarnings # <<>>
    /\ OutputWarnings # <<>>
    /\ \E j \in 1..Len(metadata.warnings) : metadata.warnings[j].from = "Evaluation"

(***************************************************************************)
(* Properties of the guardrails                                            *)
(***************************************************************************)
HasReturned(method) == returned # <<>> /\ call.method = method
Messages(list) == {list[i].msg : i \in 1..Len(list)}

\* C11: in every result of validate_input and of validate_output, is_valid is
\* true exactly when errors is empty, whatever warnings holds.
C11_ValidIffNoErrors ==
    returned # <<>> => (returned[1].is_valid <=> returned[1].errors = <<>>)

C11_Witness ==
    /\ HasReturned("validate_input")
    /\ returned[1].is_valid
    /\ Len(returned[1].warnings) >= 2

\* C12: validate_input on a text shorter than min_text_length is invalid with
\* an error that states that minimum; on a text longer than max_text_length it
\* has an error too; on a text within the two bounds it has no length error.
C12_LengthErrors ==
    HasReturned("validate_input") =>
       LET n == Len(call.contract.raw_text)
           r == returned[1]
           short == {i \in 1..Len(r.errors) : r.errors[i].msg = "Text too short"}
           long == {i \in 1..Len(r.errors) : r.errors[i].msg = "Text too long"}
       IN /\ n < min_text_length =>
               /\ ~r.is_valid
               /\ \E i \in short : r.errors[i].limit = min_text_length
          /\ n > max_text_length =>
               /\ ~r.is_valid
               /\ \E i \in long : r.errors[i].limit = max_text_length
          /\ (n >= min_text_length /\ n <= max_text_length) => short = {} /\ long = {}

C12_Witness ==
    /\ HasReturned("validate_input")
    /\ Len(call.contract.raw_text) = 30
    /\ ~returned[1].is_valid
    /\ "Text too short" \in Messages(returned[1].errors)

OtherCheckErrors ==
    {"Text too short", "Text too long", "Too few words", "Pydantic validation failed",
     "File not found", "Invalid file extension", "Cannot open image", "File too large"}
SensitiveCategories == {"ssn", "credit_card", "email", "phone"}

\* C13: the sensitive-data scan of validate_input adds no error, so is_valid
\* is what the other checks made it; when a pattern matches it adds exactly one
\* warning and details.sensitive_data_detected maps each matched category to
\* its number of matches ("123-45-6789" once gives ssn: 1), never to text.
C13_SensitiveScanWarnsOnly ==
    HasReturned("validate_input") =>
       LET r == returned[1]
           text == call.contract.raw_text
           found == "sensitive_data_detected" \in DOMAIN r.details
           warned == {i \in 1..Len(r.warnings) :
                        r.warnings[i].msg = "Sensitive data detected"}
       IN /\ Messages(r.errors) \subseteq OtherCheckErrors
          /\ r.is_valid <=> Messages(r.errors) \cap OtherCheckErrors = {}
          /\ Cardinality(warned) = IF found THEN 1 ELSE 0
          /\ found <=> \E i \in 1..Len(sensitive_patterns) :
                          search(sensitive_patterns[i].pattern, text)
          /\ found =>
               /\ DOMAIN r.details["sensitive_data_detected"] \subseteq SensitiveCategories
               /\ DOMAIN r.details["sensitive_data_detected"] # {}
               /\ \A k \in DOMAIN r.details["sensitive_data_detected"] :
                     r.details["sensitive_data_detected"][k] \in Nat \ {0}
          /\ text = SsnText => found /\ r.details["sensitive_data_detected"] = ("ssn" :> 1)
          /\ text = TwoSsnText =>
               found /\ r.details["sensitive_data_detected"] = ("ssn" :> 2)

C13_Witness ==
    /\ HasReturned("validate_input")
    /\ call.contract.raw_text = SsnText
    /\ returned[1].is_valid
    /\ returned[1].details["sensitive_data_detected"] = ("ssn" :> 1)

(***************************************************************************)
(* Properties of validate_against_context                                  *)
(***************************************************************************)
\* the text of s before its first " - ", all of s when it has none
BeforeSeparator(s) ==
    IF \E n \in 0..Len(s) : Contains(SubSeq(s, 1, n), IdSeparator)
    THEN LET n == CHOOSE k \in 0..Len(s) :
                     /\ Contains(SubSeq(s, 1, k), IdSeparator)
                     /\ \A j \in 0..(k - 1) : ~Contains(SubSeq(s, 1, j), IdSeparator)
         IN SubSeq(s, 1, n - Len(IdSeparator))
    ELSE s
Ids(list) == {BeforeSeparator(list[i]) : i \in 1..Len(list)}
AreaIds == Ids(call.ctx.identified_change_areas)
ChangedIds == Ids(call.chg.sections_changed)

C15_SectionSets ==
    HasReturned("validate_against_context") =>
       LET r == returned[1]
       IN /\ r.no_extra_sections <=> \A id \in ChangedIds : id \in AreaIds \/ id = NewSection
          /\ r.covered_sections \cup r.missed_sections = AreaIds
          /\ r.covered_sections \cap r.missed_sections = {}
          /\ r.covered_sections \subseteq ChangedIds
          /\ r.missed_sections \cap ChangedIds = {}
          /\ r.extra_sections = ChangedIds \ AreaIds

C15_Witness ==
    /\ HasReturned("validate_against_context")
    /\ returned[1].no_extra_sections
    /\ NewSection \in returned[1].extra_sections
    /\ returned[1].covered_sections # {}
    /\ returned[1].missed_sections # {}

(***************************************************************************)
(* Properties of the evaluator                                             *)
(***************************************************************************)
\* evaluate_output, with the dimension methods real or patched, has returned
EvaluationReturned ==
    /\ returned # <<>>
    /\ call.method \in {"evaluate_output", "evaluate_output_stubbed"}
    /\ ~returned[1].raised

Total5(scores) ==
    QAdd(QAdd(QAdd(QAdd(scores["completeness"], scores["accuracy"]), scores["clarity"]),
              scores["relevance"]), scores["consistency"])

AllScores(scores, v) == \A d \in Dimensions : scores[d] = Q(v, 1)

\* C16: in every result evaluate_output returns, overall_score times five is the sum
\* of the completeness, accuracy, clarity, relevance and consistency scores, no
\* other key being scored; five scores of 100 give 100 and five scores of 50 give 50.
C16_OverallIsMean ==
    EvaluationReturned =>
        LET r == returned[1].results
        IN /\ DOMAIN r.dimension_scores = Dimensions
           /\ QMul(r.overall_score, Q(5, 1)) = Total5(r.dimension_scores)
           /\ AllScores(r.dimension_scores, 100) => r.overall_score = Q(100, 1)
           /\ AllScores(r.dimension_scores, 50) => r.overall_score = Q(50, 1)

C16_Witness ==
    /\ EvaluationReturned
    /\ call.method = "evaluate_output"
    /\ returned[1].results.dimension_scores["accuracy"]
         # returned[1].results.dimension_scores["completeness"]
    /\ QLess(returned[1].results.overall_score, Q(100, 1))

GradeOf(score) ==
    IF AtLeast(score, 90) THEN "A"
    ELSE IF AtLeast(score, 80) THEN "B"
    ELSE IF AtLeast(score, 70) THEN "C"
    ELSE IF AtLeast(score, 60) THEN "D"
    ELSE "F"

Rank(grade) == CHOOSE i \in 1..5 : <<"F", "D", "C", "B", "A">>[i] = grade

StubbedResult(v) ==
    evaluate_scored([NewEvaluation EXCEPT
                       !.dimension_scores = [d \in Dimensions |-> Q(v, 1)]]).results

\* C17: the grade of a returned result is A from 90, B from 80 to below 90, C from 70
\* to below 80, D from 60 to below 70 and F below 60, whatever the dimension scores
\* behind the overall score; and against any other result, a higher overall score
\* never has a worse grade and an equal one has the same grade.
C17_GradeThresholds ==
    EvaluationReturned =>
        LET r == returned[1].results
        IN /\ r.grade = GradeOf(r.overall_score)
           /\ \A v \in StubScores :
                LET other == StubbedResult(v)
                IN /\ QLess(other.overall_score, r.overall_score)
                        => Rank(other.grade) <= Rank(r.grade)
                   /\ other.overall_score = r.overall_score => other.grade = r.grade

C17_Witness ==
    /\ EvaluationReturned
    /\ returned[1].results.overall_score = Q(90, 1)
    /\ returned[1].results.grade = "A"
    /\ ~AllScores(returned[1].results.dimension_scores, 90)

\* C18: when the five scoring steps of evaluate_output have run, whether or not the
\* call then returns, dimension_scores has exactly the keys completeness, accuracy,
\* clarity, relevance and consistency and every score lies in [0, 100].
C18_FiveScoresInRange ==
    (returned # <<>> /\ call.method = "evaluate_output") =>
        LET scores == returned[1].results.dimension_scores
        IN /\ DOMAIN scores = Dimensions
           /\ \A d \in Dimensions :
                ~QLess(scores[d], Q(0, 1)) /\ ~QLess(Q(100, 1), scores[d])

C18_Witness ==
    /\ returned # <<>>
    /\ call.method = "evaluate_output"
    /\ call.chg.sections_changed = <<>>
    /\ call.chg.topics_touched = <<>>
    /\ returned[1].results.dimension_scores["completeness"] = Q(0, 1)
    /\ returned[1].results.dimension_scores["relevance"] = Q(100, 1)

\* C19: constructing a ContractChangeOutput with an empty sections_changed raises a
\* validation error naming that field, and _evaluate_completeness on a hand-built
\* output with no section scores completeness 0, whatever the topics, the length
\* of the summary and the number of change areas.
C19_NoSectionsScoresZero ==
    /\ (/\ returned # <<>>
        /\ call.method = "ContractChangeOutput"
        /\ call.fields.sections_changed = <<>>)
           => ~returned[1].ok /\ "sections_changed" \in returned[1].failed
    /\ (/\ returned # <<>>
        /\ call.method = "_evaluate_completeness"
        /\ call.chg.sections_changed = <<>>)
           => returned[1].dimension_scores["completeness"] = Q(0, 1)

C19_Witness ==
    /\ returned # <<>>
    /\ call.method = "_evaluate_completeness"
    /\ call.chg.sections_changed = <<>>
    /\ call.chg.topics_touched # <<>>
    /\ Len(call.chg.summary_of_the_change) >= LongSummaryLength
    /\ call.ctx.identified_change_areas = <<>>
    /\ returned[1].dimension_scores["completeness"] = Q(0, 1)

(***************************************************************************)
(* Properties of the LLM-based evaluation                                  *)
(***************************************************************************)
IsErrorPayload(payload) ==
    /\ DOMAIN payload = {"error", "score"}
    /\ payload["error"] # ""
    /\ payload["score"] = None

\* metadata['evaluation_results'] has the key
HasEvaluation(key) ==
    /\ metadata.evaluation_results # <<>>
    /\ key \in DOMAIN metadata.evaluation_results

LlmFailureRecorded ==
    /\ HasEvaluation("llm_based")
    /\ IsErrorPayload(metadata.evaluation_results["llm_based"])

\* C20: evaluate_with_llm never raises, and without a client, when the call fails or
\* when the reply is not JSON it returns a payload with an 'error' message and
\* score None; a run of the enhanced entry point whose metadata holds such a
\* payload also holds the rule-based evaluation, has not raised, and ends by
\* returning its ContractChangeOutput.
C20_LlmFailureIsPayload ==
    /\ (returned # <<>> /\ call.method = "evaluate_with_llm") =>
          /\ ~returned[1].raised
          /\ (~call.client \/ call.reply.kind # "json")
                => IsErrorPayload(returned[1].payload)
    /\ LlmFailureRecorded =>
          /\ HasEvaluation("rule_based")
          /\ metadata.evaluation_results["rule_based"].grade # ""
          /\ [from |-> "Evaluation", msg |-> "LLM evaluation"] \notin Range(metadata.warnings)
          /\ outcome.status # "raised"
          /\ changes.ok
          /\ pc \in {"return", "done"}
          /\ pc = "done" => outcome.status = "returned"

C20_Witness ==
    /\ LlmFailureRecorded
    /\ HasEvaluation("rule_based")
    /\ pc = "done"
    /\ outcome.status = "returned"
    /\ changes.ok

(***************************************************************************)
(* Properties of the scoring and of the recommendations                    *)
(***************************************************************************)
\* _evaluate_completeness has returned for an output that loses nothing before the
\* summary length is looked at: as many sections as change areas, and a topic
FullBeforeLength ==
    /\ returned # <<>>
    /\ call.method = "_evaluate_completeness"
    /\ Len(call.chg.sections_changed) > 0
    /\ Len(call.chg.sections_changed) >= Len(call.ctx.identified_change_areas)
    /\ Len(call.chg.topics_touched) > 0

\* C23: the summary-length penalty of the completeness score is one branch only: a
\* summary under 100 characters multiplies the score by 0.3 (and not by 0.7), one of
\* 100 to 199 characters by 0.7, one of 200 or more characters by nothing.
C23_LengthPenaltyByBranch ==
    FullBeforeLength =>
        LET n == Len(call.chg.summary_of_the_change)
            score == returned[1].dimension_scores["completeness"]
        IN /\ n < 100 => score = Q(30, 1)
           /\ (100 <= n /\ n < 200) => score = Q(70, 1)
           /\ n >= 200 => score = Q(100, 1)

\* the output, the context and the documents are what the constructors of models.py return
PassedConstruction(chg, original, amendment, ctx) ==
    /\ chg = ContractChangeOutput(chg)
    /\ ctx = AgentContext(ctx)
    /\ original = ParsedContract(original.raw_text, original.document_type,
                                 original.sections_identified)
    /\ amendment = ParsedContract(amendment.raw_text, amendment.document_type,
                                  amendment.sections_identified)
    /\ chg.ok /\ ctx.ok /\ original.ok /\ amendment.ok

CompletenessAdvice ==
    {"Ensure all identified change areas are covered in the extraction",
     "No sections identified - review the extraction logic"}

\* C24: evaluate_output returns, and does not raise, for every output, context and
\* pair of documents that passed model construction; when the completeness score is
\* below 70 the result it returns carries a completeness recommendation.
C24_EvaluateOutputReturns ==
    (/\ returned # <<>>
     /\ call.method = "evaluate_output"
     /\ PassedConstruction(call.chg, call.original, call.amendment, call.ctx)) =>
        /\ ~returned[1].raised
        /\ QLess(returned[1].results.dimension_scores["completeness"], Q(70, 1))
              => Range(returned[1].results.recommendations) \cap CompletenessAdvice # {}

AdviceOf(dimension) ==
    CASE dimension = "completeness" -> CompletenessAdvice
      [] dimension = "accuracy" ->
           {"Some sections do not appear in source documents - verify section references",
            "Topics may not be well-grounded in document content - improve topic extraction"}
      [] dimension = "clarity" ->
           {"Add structure indicators (First, Second, Additionally) to improve summary clarity",
            "Break long sentences into shorter, clearer statements"}
      [] dimension = "relevance" ->
           {"Replace generic topics with more specific business/legal concepts",
            "Identify specific sections rather than broad references"}
      [] dimension = "consistency" ->
           {"Ensure all sections are explicitly mentioned in the summary",
            "Ensure all topics are discussed in the summary"}

DimensionOrder == <<"completeness", "accuracy", "clarity", "relevance", "consistency">>

\* the position in DimensionOrder of the dimension an advisory string belongs to
PlaceOf(advice) == CHOOSE i \in 1..5 : advice \in AdviceOf(DimensionOrder[i])

ClarityScored ==
    /\ returned # <<>>
    /\ \/ call.method = "_evaluate_clarity"
       \/ call.method = "evaluate_output"

ClarityResults == IF call.method = "_evaluate_clarity" THEN returned[1] ELSE returned[1].results

\* the clarity of the summaries, as the repository's ContractEvaluator scores them
KnownClarity ==
    [summary \in {<<>>, MidSummary, StructuredSummary, OneSentenceSummary} |-> 100]
    @@ (PlainSummary :> 90) @@ (TerseSummary :> 80) @@ (ChoppySummary :> 72)
    @@ (SingleSentenceSummary :> 70) @@ (TinySummary :> 56) @@ (LongSentenceSummary :> 56)

\* C26: clarity is 100, times 0.7 when the summary is exactly one sentence, times 0.8
\* when the average words per sentence is below 10 or above 50, times 0.9 when there
\* are more than two sentences and no transition word; the 0.7 and the 0.9 factors
\* never both apply, and clarity is one of 100, 90, 80, 72, 70, 56.
C26_ClarityFactors ==
    ClarityScored =>
        LET details == ClarityResults.details
            clarity == ClarityResults.dimension_scores["clarity"]
            count == details["sentence_count"]
            one == count = 1
            odd_length == /\ "avg_sentence_length" \in DOMAIN details
                          /\ \/ QLess(details["avg_sentence_length"], Q(10, 1))
                             \/ QLess(Q(50, 1), details["avg_sentence_length"])
            flat == count > 2 /\ ~details["has_structure_indicators"]
            Factor(applies, tenths) == IF applies THEN Q(tenths, 10) ELSE Q(1, 1)
        IN /\ clarity = QMul(Q(100, 1), QMul(Factor(one, 7),
                             QMul(Factor(odd_length, 8), Factor(flat, 9))))
           /\ ~(one /\ flat)
           /\ clarity \in {Q(v, 1) : v \in {100, 90, 80, 72, 70, 56}}
           /\ clarity = Q(KnownClarity[call.chg.summary_of_the_change], 1)
           /\ count = 0 <=> "avg_sentence_length" \notin DOMAIN details

C26_Witness ==
    /\ ClarityScored
    /\ ClarityResults.dimension_scores["clarity"] = Q(56, 1)
    /\ ClarityResults.details["sentence_count"] = 1
    /\ QLess(Q(50, 1), ClarityResults.details["avg_sentence_length"])

(***************************************************************************)
(* Properties of validate_output                                           *)
(***************************************************************************)
\* topic stands in text at some position, letter case apart
OccursIgnoringCase(text, topic) ==
    \E start \in 0..(Len(text) - Len(topic)) :
        \A k \in 1..Len(topic) : lower_char(text[start + k]) = lower_char(topic[k])

\* C27: validate_output runs four checks, so total_checks is 4; it has the error
\* 'Summary too short' exactly when the summary is shorter than 100 characters, a
\* warning when the sections are empty, a warning when the topics are empty, and
\* the fabrication warning exactly when the topics are non-empty and the full text
\* of none of them occurs, letter case apart, in the original text followed by the
\* amendment text: one grounded topic suppresses it.
C27_OutputChecks ==
    HasReturned("validate_output") =>
        LET r == returned[1]
            out == call.out
            source == call.original.raw_text \o call.amendment.raw_text
            grounded == {i \in 1..Len(out.topics_touched) :
                           OccursIgnoringCase(source, out.topics_touched[i])}
            fabricated == out.topics_touched # <<>> /\ grounded = {}
        IN /\ r.total_checks = 4
           /\ "Summary too short" \in Messages(r.errors)
                <=> Len(out.summary_of_the_change) < 100
           /\ Messages(r.errors) \subseteq {"Summary too short"}
           /\ "No sections changed identified" \in Messages(r.warnings)
                <=> out.sections_changed = <<>>
           /\ "No topics identified" \in Messages(r.warnings) <=> out.topics_touched = <<>>
           /\ "Topics do not appear in source documents" \in Messages(r.warnings)
                <=> fabricated
           /\ r.checks_passed = 4 - Len(r.errors) - Len(r.warnings)
           /\ (\E i \in 1..Len(out.topics_touched) : out.topics_touched[i] = TopicT)
                => ~fabricated
           /\ out.topics_touched = <<TopicU>> => fabricated
           /\ out.topics_touched = <<TopicAcross>> =>
                (fabricated <=> call.original.raw_text = PlainText)

C27_Witness ==
    /\ HasReturned("validate_output")
    /\ call.out.topics_touched = <<TopicU, TopicT>>
    /\ returned[1].warnings = <<>>
    /\ returned[1].checks_passed = 3
    /\ ~returned[1].is_valid

(***************************************************************************)
(* Properties of the counters of validate_input                            *)
(***************************************************************************)
\* length, quality, sections, round trip, and the two file checks when a file is given
CountedChecks == IF call.file.given THEN 6 ELSE 4

CountersInRange ==
    /\ returned[1].checks_passed >= 0
    /\ returned[1].checks_passed <= returned[1].total_checks
    /\ returned[1].errors # <<>> => returned[1].checks_passed < returned[1].total_checks

\* C28: in the result of validate_input every check that ran has incremented
\* total_checks, the sensitive-data scan included (the four checks of the record,
\* the two file checks when a file is given, and the scan); checks_passed is between
\* 0 and total_checks, and below total_checks when errors is non-empty.
C28_EveryCheckCounted ==
    HasReturned("validate_input") =>
        /\ returned[1].total_checks = CountedChecks + 1
        /\ CountersInRange

\* C28 as amended: every check that ran except the sensitive-data scan has
\* incremented total_checks (4 without a file, 6 with one); the scan changes neither
\* counter, whether it finds something or not; checks_passed is between 0 and
\* total_checks, and below total_checks when errors is non-empty.
C28_ScanNotCounted ==
    HasReturned("validate_input") =>
        /\ returned[1].total_checks = CountedChecks
        /\ CountersInRange

C28_Witness ==
    /\ HasReturned("validate_input")
    /\ call.file.given
    /\ "sensitive_data_detected" \in DOMAIN returned[1].details
    /\ returned[1].errors # <<>>
    /\ returned[1].total_checks = 6
    /\ returned[1].checks_passed = 5

(***************************************************************************)
(* Properties of the context that stage 1 hands on                         *)
(***************************************************************************)
AfterStage1 == pc \in {"step4", "step5", "step6", "return"}

\* C22: every constructed AgentContext has a non-empty corresponding_sections and
\* at least one identified change area: constructing one with an empty mapping or
\* with an empty list of change areas raises, and the context that the steps after
\* stage 1 work on is a constructed one, so it never has zero change areas.
C22_ContextNeverEmpty ==
    /\ context.ok =>
         /\ DOMAIN context.corresponding_sections # {}
         /\ Len(context.identified_change_areas) >= 1
    /\ AfterStage1 => context.ok
    /\ (pc = "done" /\ outcome.status = "returned") => context.ok
    /\ HasReturned("AgentContext") =>
         /\ call.fields.corresponding_sections = <<>> => ~returned[1].ok
         /\ call.fields.identified_change_areas = <<>> => ~returned[1].ok
         /\ returned[1].ok =>
              /\ returned[1].corresponding_sections = call.fields.corresponding_sections
              /\ returned[1].identified_change_areas = call.fields.identified_change_areas

C22_Witness ==
    /\ HasReturned("AgentContext")
    /\ Len(call.fields.document_structure) >= 100
    /\ Len(call.fields.context_summary) >= 50
    /\ call.fields.corresponding_sections # <<>>
    /\ call.fields.identified_change_areas = <<>>
    /\ ~returned[1].ok

(***************************************************************************)
(* Properties of a failing rule-based evaluation                           *)
(***************************************************************************)
EvaluationRan == \E i \in 1..Len(log) : log[i] = "evaluate"
EvaluationWarned == \E j \in 1..Len(metadata.warnings) : metadata.warnings[j].from = "Evaluation"

\* C29: in the enhanced entry point an exception of the rule-based evaluation does
\* not end the run: it is recorded as an 'Evaluation: ...' warning of the metadata,
\* evaluation_results gets no 'rule_based' entry, and the run returns the
\* ContractChangeOutput of stage 2.
C29_EvaluationFailureKept ==
    EvaluationRan =>
        LET evaluation == evaluate_output(changes, original_contract, amendment_contract,
                                          context)
        IN /\ variant = "enhanced"
           /\ changes.ok
           /\ evaluation.raised =>
                /\ EvaluationWarned
                /\ ~HasEvaluation("rule_based")
                /\ metadata.errors = <<>>
                /\ outcome.status # "raised"
                /\ pc \in {"return", "done"}
                /\ pc = "done" => outcome.status = "returned"

C29_Witness ==
    /\ EvaluationRan
    /\ EvaluationWarned
    /\ ~HasEvaluation("rule_based")
    /\ pc = "done"
    /\ outcome.status = "returned"
    /\ changes.ok

(***************************************************************************)
(* Properties of the records handed from step to step                      *)
(***************************************************************************)
\* no step changes a record that an earlier step has produced
HandedOn ==
    /\ original_contract.ok => original_contract' = original_contract
    /\ amendment_contract.ok => amendment_contract' = amendment_contract
    /\ context.ok => context' = context
    /\ changes.ok => changes' = changes

\* the outputs that stage 2 can construct from its replies
Stage2Outputs == {extract_changes(reply) : reply \in Stage2Replies} \ {NoOutput}

\* C21: no step changes a record it was handed: input validation, the safety check,
\* the two stages, output validation and the evaluation leave the parsed contracts,
\* the context and the ContractChangeOutput as they received them, so a run returns
\* the ContractChangeOutput field for field as stage 2 constructed it.
C21_HandedRecordsUnchanged ==
    [][/\ HandedOn
       /\ (pc' = "done" /\ outcome'.status = "returned") =>
            changes' \in Stage2Outputs /\ changes' = changes]_vars

C21_Witness ==
    /\ pc = "done"
    /\ outcome.status = "returned"
    /\ metadata.guardrails_results # <<>>
    /\ {"original", "amendment", "output"} \subseteq DOMAIN metadata.guardrails_results
    /\ HasEvaluation("rule_based")
    /\ Len(changes.sections_changed) = 2

(***************************************************************************)
(* Properties of output validation in a run                                *)
(***************************************************************************)
OutputValidated ==
    /\ metadata.guardrails_results # <<>>
    /\ "output" \in DOMAIN metadata.guardrails_results

FromOutput(list) == {list[j].msg : j \in {i \in 1..Len(list) : list[i].from = "Output"}}

\* C30: validate_output of a ContractChangeOutput that stage 2 constructed is valid:
\* it has no 'Summary too short' error and neither empty-list warning, so in a run
\* output validation adds at most the fabrication warning to the metadata, and its
\* checks_passed is 3 or 4 of 4.
C30_ConstructedOutputValid ==
    OutputValidated =>
        LET r == metadata.guardrails_results["output"]
        IN /\ changes \in Stage2Outputs
           /\ r.is_valid
           /\ r.errors = <<>>
           /\ Messages(r.warnings) \subseteq {"Topics do not appear in source documents"}
           /\ r.total_checks = 4
           /\ r.checks_passed = 4 - Len(r.warnings)
           /\ r.checks_passed \in {3, 4}
           /\ FromOutput(metadata.errors) = {}
           /\ FromOutput(metadata.warnings) = Messages(r.warnings)

C30_Witness ==
    /\ OutputValidated
    /\ metadata.guardrails_results["output"].checks_passed = 3
    /\ metadata.guardrails_results["output"].is_valid
    /\ FromOutput(metadata.warnings) = {"Topics do not appear in source documents"}
    /\ Len(changes.summary_of_the_change) = 100
    /\ pc = "done"

====
